---- MODULE Spec2Model ----
(***************************************************************************)
(* Initial sync of a beacon node (package initialsync): roundRobinSync,    *)
(* its block admission gate processBlock, and the blocks queue and blocks  *)
(* fetcher it drives.  The orchestrator and the gate are translated from   *)
(* initial-sync/round_robin.go; the queue, the fetcher, the peer directory *)
(* and the helpers are collaborators whose source is not part of the tree  *)
(* and are modelled from their documented contracts.                       *)
(***************************************************************************)
EXTENDS Integers, Sequences, FiniteSets, TLC

---------------------------------------------------------------------------
(* Bounds of the model. *)

\* Highest slot: wall-clock slots and block slots stay in 0..MaxSlot.
MaxSlot == 3
\* Highest finalized epoch a peer advertises.
MaxEpoch == 0
\* Highest finalized epoch a peer advertises in the runs of phase 1 alone.
QueueMaxEpoch == 1
\* Before the sync run the local head is at most MaxBehind slots short of
\* the target of phase 1.
MaxBehind == 2
\* The local head slot in the runs of phase 1 alone is in 0..MaxInitHead.
MaxInitHead == 1
\* How many times the peer-selection wait of phase 2 may sleep.
MaxWaits == 1

\* Slots per epoch (params.BeaconConfig().SlotsPerEpoch, scaled down).
SlotsPerEpoch == 2
\* Size of one sub-range of the queue (the fetcher's throughput budget).
SubRangeSize == 2
\* blocksFetcher.blocksPerSecond lies in 1..MaxBlocksPerSecond.
MaxBlocksPerSecond == 1
\* Maximum number of concurrently running fetchers of the queue.
MaxFetchers == 2
\* A sub-range that failed more than RetryCeiling times is a stall.
RetryCeiling == 1
\* Capacity of the queue's output channel fetchedBlocks.
ChanCap == 1

Peers == {"p1", "p2"}
NoPeer == "none"

Min(a, b) == IF a <= b THEN a ELSE b
Max(a, b) == IF a >= b THEN a ELSE b

---------------------------------------------------------------------------
(* Blocks and roots. *)

\* The highest slot a block of the model has: a phase 2 request reaches
\* one slot past the wall clock, the queue reaches its target slot.
MaxBlockSlot ==
    Max(MaxSlot + 1, (Max(MaxEpoch, QueueMaxEpoch) + 2) * SlotsPerEpoch)

\* stateutil.BlockRoot: the content hash of a block, injective in the
\* block's fields (the block body is its slot and its parent root).
BlockRoot(blk) == 1 + blk.slot + (MaxBlockSlot + 1) * blk.parentRoot

\* The root of the block the local chain starts from (slot 0).
GenesisRoot == 1

RECURSIVE CanonRoot(_)
\* The root of the canonical block at slot s: every slot holds a block
\* whose parent is the canonical block of the slot before.
CanonRoot(s) ==
    IF s = 0 THEN GenesisRoot
    ELSE BlockRoot([slot |-> s, parentRoot |-> CanonRoot(s - 1)])

\* The blocks a peer may send for slot s: the canonical one, and one built
\* on the block two slots back (slot s - 1 was skipped).  A block is an
\* orphan when the block it builds on was never accepted.
BlocksAt(s) ==
    { [slot |-> s, parentRoot |-> p] :
        p \in {CanonRoot(s - 1)}
              \cup (IF s >= 2 THEN {CanonRoot(s - 2)} ELSE {}) }

RECURSIVE RangeResponses(_, _)
\* What a peer may answer to a range request for slots a..b with step 1:
\* blocks in increasing slot order, at most one per slot, possibly fewer
\* than asked for (a peer may hold fewer blocks).
RangeResponses(a, b) ==
    IF a > b THEN { <<>> }
    ELSE LET rest == RangeResponses(a + 1, b)
         IN  rest \cup { <<blk>> \o r : blk \in BlocksAt(a), r \in rest }

\* helpers.StartSlot: the first slot of an epoch.
StartSlot(epoch) == epoch * SlotsPerEpoch

---------------------------------------------------------------------------
(* State. *)

VARIABLES
    pc,                 \* where roundRobinSync stands
    result,             \* what roundRobinSync returned ("running" before)
    lastProcessedSlot,  \* s.lastProcessedSlot
    counter,            \* s.counter: blocks counted by logSyncStatus
    headSlot,           \* s.chain.HeadSlot()
    db,                 \* roots for which s.db.HasBlock holds
    initSyncCache,      \* roots for which s.chain.HasInitSyncBlock holds
    now,                \* helpers.SlotsSince(genesis)
    peers,              \* the peer directory: peer -> status
    qState,             \* the queue: idle, running, draining, stopped
    highestExpectedSlot,\* the queue's target slot
    qLow,               \* first slot of the queue's interval
    qSub,               \* the queue's sub-ranges, by start slot
    fetchedBlocks,      \* the queue's output channel
    chanClosed,         \* whether fetchedBlocks is closed
    emitted,            \* slots sent on fetchedBlocks so far
    blocksPerSecond,    \* blocksFetcher.blocksPerSecond of phase 2
    best,               \* the peer phase 2 polls
    target,             \* head of the phase 2 loop (line 101)
    batch,              \* blocks of resp not yet processed
    batchLen,           \* len(resp)
    selections,         \* calls of BestFinalized
    waits,              \* sleeps of the peer-selection wait
    requests,           \* range requests of phase 2
    lastReq,            \* the last range request of phase 2
    reqErr,             \* what the last requestBlocks returned as error
    guardEq,            \* the guard of line 73 held
    lastEvent,          \* the last call of processBlock
    handed,             \* calls of processBlock
    accepted,           \* slots of the accepted blocks, in order
    stream,             \* chunk codec: the bytes on the stream
    origin,             \* chunk codec: who wrote the stream
    msgIn,              \* chunk codec: the message given to the writer
    writeOps,           \* chunk codec: what the write path did, in order
    writeErr,           \* chunk codec: what the write path returned
    readOps,            \* chunk codec: what the read path did, in order
    readTo,             \* chunk codec: the destination of the read path
    readErr,            \* chunk codec: what the read path returned
    blkOut,             \* chunk codec: the block ReadChunkedBlock returned
    selectedAggregateFn,\* attestations: the selected aggregation function
    strategyConfig,     \* featureconfig.Get().AttestationAggregationStrategy
    aggregateLog,       \* attestations: what the calls of Aggregate did
    vc,                 \* the ValidatorClient: lock, stop, services
    vcProc,             \* the goroutines around the ValidatorClient
    vcLog               \* what happened to the ValidatorClient, in order

orchVars == <<pc, result, blocksPerSecond, best, target, batch, batchLen,
              selections, waits, requests, lastReq, reqErr, guardEq>>
gateVars == <<lastProcessedSlot, counter, headSlot, db, initSyncCache,
              lastEvent, handed, accepted>>
\* The streams of the chunk codec; roundRobinSync reaches them only
\* through its collaborators, so for the run they are environment.
codecVars == <<stream, origin, msgIn, writeOps, writeErr, readOps, readTo,
               readErr, blkOut>>
\* The aggregation strategy of the attestations package; roundRobinSync
\* does not reach it.
aggVars == <<selectedAggregateFn, strategyConfig, aggregateLog>>
\* The validator client of package node; roundRobinSync does not reach it.
clientVars == <<vc, vcProc, vcLog>>
envVars == <<now, peers, codecVars, aggVars, clientVars>>
queueVars == <<qState, highestExpectedSlot, qLow, qSub, fetchedBlocks,
               chanClosed, emitted>>
vars == <<orchVars, gateVars, envVars, queueVars>>

\* An error value of the chunk codec: its kind and, for an error a peer
\* reported, the text the peer sent.
CodecError(kind, text) == [kind |-> kind, text |-> text]
NoError == CodecError("nil", <<>>)
NotReturned == CodecError("not returned", <<>>)

\* No call of the chunk codec yet: an empty stream, an empty destination.
CodecAtRest ==
    /\ stream = <<>>
    /\ origin = "none"
    /\ msgIn = <<>>
    /\ writeOps = <<>>
    /\ writeErr = NotReturned
    /\ readOps = <<>>
    /\ readTo = <<>>
    /\ readErr = NotReturned
    /\ blkOut = <<>>

\* No aggregation function is selected: the package variable is nil.
NilFn == "nil"

\* Nothing was aggregated yet; no strategy is configured.
AggregateAtRest ==
    /\ selectedAggregateFn = NilFn
    /\ strategyConfig = ""
    /\ aggregateLog = <<>>

\* The goroutines around the ValidatorClient: the caller of Start, the
\* signal handler Start spawns, the Close the handler spawns, and a caller
\* of Close from elsewhere.
Closers == {"handler", "caller"}

\* NewValidatorClient has returned (lines 157-161): the lock is free, the
\* stop channel is open, the services are registered; no goroutine runs.
ClientAtRest ==
    /\ vc = [lock |-> "free", stop |-> "open", services |-> "registered"]
    /\ vcProc = [Start |-> "not called", signal |-> "none", interrupts |-> 0,
                 Close |-> [c \in Closers |-> "not called"],
                 panicked |-> FALSE]
    /\ vcLog = <<>>

\* Peer status: not connected, connected without a chain state (the
\* ChainState lookup fails), or the finalized epoch of its chain state.
NotConnected == -2
NoChainState == -1
PeerStatus == {NotConnected, NoChainState} \cup (0 .. MaxEpoch)

\* s.p2p.Peers().Connected()
Connected(ps) == { p \in Peers : ps[p] # NotConnected }

\* s.p2p.Peers().ChainState(pid) succeeds with a non-nil state.
HasChainState(ps, p) == ps[p] >= 0

\* A slip: the lowest FinalizedEpoch is kept in place of the highest.
highestFinalizedEpoch_Lowest(ps) ==
    LET known == { ps[p] : p \in { q \in Connected(ps) : HasChainState(ps, q) } }
    IN  IF known = {} THEN 0
        ELSE CHOOSE e \in known : \A f \in known : e <= f

\* highestFinalizedEpoch: the highest FinalizedEpoch over the connected
\* peers whose chain state is available, 0 when there is none.
highestFinalizedEpoch(ps) ==
    LET known == { ps[p] : p \in { q \in Connected(ps) : HasChainState(ps, q) } }
    IN  IF known = {} THEN 0
        ELSE CHOOSE e \in known : \A f \in known : f <= e

\* Peers().BestFinalized(maxPeers, minEpoch): the connected peers whose
\* finalized epoch is at least minEpoch, best first, at most maxPeers.
BestFinalized(ps, minEpoch) ==
    LET ok == { p \in Connected(ps) : HasChainState(ps, p) /\ ps[p] >= minEpoch }
    IN  IF ok = {} THEN {}
        ELSE { p \in ok : \A q \in ok : ps[q] <= ps[p] }

---------------------------------------------------------------------------
(* The block admission gate: processBlock. *)

ErrNil == "nil"
ErrSlotProcessed == "slot already processed"
ErrNoParent == "beacon node doesn't have a block in db"
\* What a receiver may return.
ReceiverResults == {ErrNil, "receiver error"}
NotCalled == "not called"

\* s.db.HasBlock and s.chain.HasInitSyncBlock
HasBlock(dbRoots, root) == root \in dbRoots
HasInitSyncBlock(cacheRoots, root) == root \in cacheRoots

\* A slip: a block at the watermark's own slot passes.
SlotAlreadyProcessed_AllowsEqual(blk, lps) == blk.slot < lps

\* Line 172: the slot is not above the watermark.
SlotAlreadyProcessed(blk, lps) == blk.slot <= lps

\* A slip: the negation of the second lookup is lost.
ParentMissing_NegationDropped(blk, dbRoots, cacheRoots) ==
    /\ ~HasBlock(dbRoots, blk.parentRoot)
    /\ HasInitSyncBlock(cacheRoots, blk.parentRoot)

\* Line 181: the parent is in neither store.
ParentMissing(blk, dbRoots, cacheRoots) ==
    /\ ~HasBlock(dbRoots, blk.parentRoot)
    /\ ~HasInitSyncBlock(cacheRoots, blk.parentRoot)

\* A slip: the receiver's error is replaced by another one.
ReceiverError_Replaced(err) == "could not receive block"

\* What the receiver's error becomes on its way out (lines 184-186).
ReceiverError(err) == err

\* logSyncStatus (lines 148-163) as a function of the fields of the
\* Service it may reach: s.counter.Incr(1); the rate and the remaining
\* time it derives from the counter go to the log line only.
logSyncStatus(cnt, lps) ==
    [counter |-> cnt + 1, lps |-> lps]

\* A slip: the receiver is asked before the parent is looked up.
processBlock_ReceiverFirst(blk, lps, dbRoots, cacheRoots, rres, cnt) ==
    LET l == logSyncStatus(cnt, lps)
    IN  IF SlotAlreadyProcessed(blk, lps)
        THEN [err |-> ErrSlotProcessed, lps |-> lps, called |-> 0,
              logged |-> 0, counter |-> cnt]
        ELSE IF rres # ErrNil
        THEN [err |-> ReceiverError(rres), lps |-> l.lps, called |-> 1,
              logged |-> 1, counter |-> l.counter]
        ELSE IF ParentMissing(blk, dbRoots, cacheRoots)
        THEN [err |-> ErrNoParent, lps |-> l.lps, called |-> 1,
              logged |-> 1, counter |-> l.counter]
        ELSE [err |-> ErrNil, lps |-> blk.slot, called |-> 1,
              logged |-> 1, counter |-> l.counter]

\* A slip: line 187 is lost, the watermark stays.
processBlock_WatermarkKept(blk, lps, dbRoots, cacheRoots, rres, cnt) ==
    LET l == logSyncStatus(cnt, lps)
    IN  IF SlotAlreadyProcessed(blk, lps)
        THEN [err |-> ErrSlotProcessed, lps |-> lps, called |-> 0,
              logged |-> 0, counter |-> cnt]
        ELSE IF ParentMissing(blk, dbRoots, cacheRoots)
        THEN [err |-> ErrNoParent, lps |-> l.lps, called |-> 0,
              logged |-> 1, counter |-> l.counter]
        ELSE IF rres # ErrNil
        THEN [err |-> ReceiverError(rres), lps |-> l.lps, called |-> 1,
              logged |-> 1, counter |-> l.counter]
        ELSE [err |-> ErrNil, lps |-> l.lps, called |-> 1,
              logged |-> 1, counter |-> l.counter]

\* A slip: a block is turned away once the counter shows progress, as if
\* the rate throttled admission.
processBlock_Throttled(blk, lps, dbRoots, cacheRoots, rres, cnt) ==
    LET l == logSyncStatus(cnt, lps)
    IN  IF SlotAlreadyProcessed(blk, lps) \/ cnt >= 2
        THEN [err |-> ErrSlotProcessed, lps |-> lps, called |-> 0,
              logged |-> 0, counter |-> cnt]
        ELSE IF ParentMissing(blk, dbRoots, cacheRoots)
        THEN [err |-> ErrNoParent, lps |-> l.lps, called |-> 0,
              logged |-> 1, counter |-> l.counter]
        ELSE IF rres # ErrNil
        THEN [err |-> ReceiverError(rres), lps |-> l.lps, called |-> 1,
              logged |-> 1, counter |-> l.counter]
        ELSE [err |-> ErrNil, lps |-> blk.slot, called |-> 1,
              logged |-> 1, counter |-> l.counter]

\* processBlock as a function of the block, the watermark, the stores,
\* what the receiver answers if it is asked, and the counter: the error
\* returned, the new watermark, whether the receiver and logSyncStatus
\* ran, and the new counter.
\* stateutil.BlockRoot (line 175) is a hash derived from the block and is
\* total on the blocks of the model, so the return of lines 176-178 is
\* never taken.
processBlock(blk, lps, dbRoots, cacheRoots, rres, cnt) ==
    LET l == logSyncStatus(cnt, lps)
    IN  IF SlotAlreadyProcessed(blk, lps)
        THEN [err |-> ErrSlotProcessed, lps |-> lps, called |-> 0,
              logged |-> 0, counter |-> cnt]
        ELSE IF ParentMissing(blk, dbRoots, cacheRoots)
        THEN [err |-> ErrNoParent, lps |-> l.lps, called |-> 0,
              logged |-> 1, counter |-> l.counter]
        ELSE IF rres # ErrNil
        THEN [err |-> ReceiverError(rres), lps |-> l.lps, called |-> 1,
              logged |-> 1, counter |-> l.counter]
        ELSE [err |-> ErrNil, lps |-> blk.slot, called |-> 1,
              logged |-> 1, counter |-> l.counter]

\* Before the first call of processBlock.
NoEvent == [called |-> 0, answer |-> NotCalled, err |-> NotCalled]

\* One call of processBlock with receiver `recv`, which would answer `rres`
\* and, accepting, makes the block the head iff moveHead.
\* ReceiveBlockInitialSync keeps an accepted block in the init-sync cache
\* and makes it the head; ReceiveBlockNoPubsub saves it to the database
\* and leaves the head to fork choice.
ProcessBlock(blk, recv, rres, moveHead) ==
    LET o == processBlock(blk, lastProcessedSlot, db, initSyncCache, rres,
                          counter)
        ok == o.called = 1 /\ rres = ErrNil
    IN  /\ lastProcessedSlot' = o.lps
        /\ counter' = o.counter
        /\ initSyncCache' =
              IF ok /\ recv = "ReceiveBlockInitialSync"
              THEN initSyncCache \cup {BlockRoot(blk)} ELSE initSyncCache
        /\ db' = IF ok /\ recv = "ReceiveBlockNoPubsub"
                 THEN db \cup {BlockRoot(blk)} ELSE db
        /\ headSlot' = IF ok /\ moveHead THEN blk.slot ELSE headSlot
        /\ accepted' = IF o.err = ErrNil THEN Append(accepted, blk.slot)
                       ELSE accepted
        /\ handed' = handed + 1
        /\ lastEvent' =
              [called |-> o.called,
               answer |-> IF o.called = 1 THEN rres ELSE NotCalled,
               err |-> o.err]

\* What a receiver may do with blk: its answer and, when it accepts,
\* whether the block becomes the head.  These are choices only when the
\* receiver is asked.
ReceiverChoices(blk, recv) ==
    IF processBlock(blk, lastProcessedSlot, db, initSyncCache, ErrNil,
                    counter).called = 1
    THEN { [rres |-> r, moveHead |-> m] :
             r \in ReceiverResults, m \in BOOLEAN } \
         ( { [rres |-> r, moveHead |-> TRUE] : r \in ReceiverResults \ {ErrNil} }
           \cup (IF recv = "ReceiveBlockInitialSync"
                 THEN { [rres |-> ErrNil, moveHead |-> FALSE] } ELSE {}) )
    ELSE { [rres |-> ErrNil, moveHead |-> FALSE] }

---------------------------------------------------------------------------
(* The blocks queue (newBlocksQueue, start, stop, fetchedBlocks). *)

\* helpers.SlotToEpoch
SlotToEpoch(slot) == slot \div SlotsPerEpoch

\* The start slots of the sub-ranges that partition lo..hi.
SubStarts(lo, hi) == { s \in lo .. hi : (s - lo) % SubRangeSize = 0 }

\* The last slot of the sub-range that starts at s.
SubEnd(s, hi) == Min(s + SubRangeSize - 1, hi)

\* A sub-range: pending, inflight, done (fetched, its blocks buffered and
\* not yet emitted), failed (gave up after the retry ceiling) or cancelled.
NewSub ==
    [st |-> "pending", tries |-> 0, blocks |-> <<>>, got |-> 0, peer |-> NoPeer]

\* A sub-range from which nothing more will be emitted.
Finished(sub) ==
    \/ sub.st \in {"failed", "cancelled"}
    \/ sub.st = "done" /\ sub.blocks = <<>>

\* A slip: any sub-range with buffered blocks may be emitted.
NextToEmit_AnyFetched(subs) == { s \in DOMAIN subs : ~Finished(subs[s]) }

\* The sub-range whose turn it is to be emitted: the earliest one that is
\* not finished.  A later one waits behind it.
NextToEmit(subs) ==
    { s \in DOMAIN subs :
        /\ ~Finished(subs[s])
        /\ \A t \in DOMAIN subs : t < s => Finished(subs[t]) }

\* The peers a sub-range starting at s may be fetched from: connected,
\* finalized at least up to the epoch of s, and not busy with another
\* sub-range of this queue.
Candidates(ps, subs, s) ==
    { p \in Connected(ps) :
        /\ HasChainState(ps, p)
        /\ ps[p] >= SlotToEpoch(s)
        /\ \A t \in DOMAIN subs : subs[t].peer # p }

InFlight(subs) == { s \in DOMAIN subs : subs[s].st = "inflight" }

\* A failed attempt: back to pending, or failed for good past the ceiling.
AfterFailure(sub) ==
    [sub EXCEPT !.tries = sub.tries + 1,
                !.peer = NoPeer,
                !.st = IF sub.tries + 1 > RetryCeiling THEN "failed"
                       ELSE "pending"]

\* queue.start(): an idle queue runs; any other queue is left as it is.
QueueStart(qs) == IF qs = "idle" THEN "running" ELSE qs

\* newBlocksQueue followed by start(): the queue for lo..hi, running.
NewQueue(lo, hi) ==
    /\ qState' = QueueStart("idle")
    /\ qLow' = lo
    /\ highestExpectedSlot' = hi
    /\ qSub' = [s \in SubStarts(lo, hi) |-> NewSub]
    /\ fetchedBlocks' = <<>>
    /\ chanClosed' = FALSE
    /\ emitted' = <<>>

\* A fetcher is started for a pending sub-range on a free candidate peer.
QDispatch ==
    /\ qState = "running"
    /\ Cardinality(InFlight(qSub)) < MaxFetchers
    /\ \E s \in DOMAIN qSub : \E p \in Candidates(peers, qSub, s) :
         /\ qSub[s].st = "pending"
         /\ qSub' = [qSub EXCEPT ![s].st = "inflight", ![s].peer = p]
    /\ UNCHANGED <<qState, highestExpectedSlot, qLow, fetchedBlocks,
                   chanClosed, emitted>>

\* No peer can serve a pending sub-range: the attempt fails.
QNoPeer ==
    /\ qState = "running"
    /\ \E s \in DOMAIN qSub :
         /\ qSub[s].st = "pending"
         /\ Candidates(peers, qSub, s) = {}
         /\ InFlight(qSub) = {}
         /\ qSub' = [qSub EXCEPT ![s] = AfterFailure(qSub[s])]
    /\ UNCHANGED <<qState, highestExpectedSlot, qLow, fetchedBlocks,
                   chanClosed, emitted>>

\* A fetcher returns the blocks its peer sent for the sub-range.
QFetchDone ==
    /\ qState \in {"running", "draining"}
    /\ \E s \in InFlight(qSub) :
         \E resp \in RangeResponses(s, SubEnd(s, highestExpectedSlot)) :
           qSub' = [qSub EXCEPT ![s].st = "done", ![s].blocks = resp,
                                ![s].got = Len(resp), ![s].peer = NoPeer]
    /\ UNCHANGED <<qState, highestExpectedSlot, qLow, fetchedBlocks,
                   chanClosed, emitted>>

\* A fetcher fails (timeout, peer error, connection error).
QFetchFail ==
    /\ qState \in {"running", "draining"}
    /\ \E s \in InFlight(qSub) :
         qSub' = [qSub EXCEPT ![s] = AfterFailure(qSub[s])]
    /\ UNCHANGED <<qState, highestExpectedSlot, qLow, fetchedBlocks,
                   chanClosed, emitted>>

\* The next block of the sub-range whose turn it is goes to the channel.
QEmit ==
    /\ qState \in {"running", "draining"}
    /\ ~chanClosed
    /\ Len(fetchedBlocks) < ChanCap
    /\ \E s \in NextToEmit(qSub) :
         /\ qSub[s].st = "done"
         /\ fetchedBlocks' = Append(fetchedBlocks, Head(qSub[s].blocks))
         /\ emitted' = Append(emitted, Head(qSub[s].blocks).slot)
         /\ qSub' = [qSub EXCEPT ![s].blocks = Tail(qSub[s].blocks)]
    /\ UNCHANGED <<qState, highestExpectedSlot, qLow, chanClosed>>

\* Nothing is left to dispatch: the queue only flushes its buffer.
QDrain ==
    /\ qState = "running"
    /\ \A s \in DOMAIN qSub : qSub[s].st \in {"done", "failed"}
    /\ qState' = "draining"
    /\ UNCHANGED <<highestExpectedSlot, qLow, qSub, fetchedBlocks,
                   chanClosed, emitted>>

\* Every sub-range was emitted or failed for good: the channel is closed.
QClose ==
    /\ qState = "draining"
    /\ ~chanClosed
    /\ \A s \in DOMAIN qSub : Finished(qSub[s])
    /\ chanClosed' = TRUE
    /\ UNCHANGED <<qState, highestExpectedSlot, qLow, qSub, fetchedBlocks,
                   emitted>>

\* A slip: stop() closes the channel and leaves the fetchers running.
QueueStop_LeavesFetchers ==
    /\ qState' = "stopped"
    /\ chanClosed' = TRUE
    /\ UNCHANGED <<qSub, highestExpectedSlot, qLow, fetchedBlocks, emitted>>

\* queue.stop(): from any state; the fetchers in flight are cancelled, the
\* channel is closed and the buffers of the sub-ranges are released: of a
\* sub-range only its outcome and the number of blocks it got are kept.
QueueStop ==
    /\ qState' = "stopped"
    /\ chanClosed' = TRUE
    /\ qSub' = [s \in DOMAIN qSub |->
                  [NewSub EXCEPT !.st = IF qSub[s].st \in {"inflight", "pending"}
                                        THEN "cancelled" ELSE qSub[s].st,
                                 !.got = qSub[s].got]]
    /\ UNCHANGED <<highestExpectedSlot, qLow, fetchedBlocks, emitted>>

QueueStep == QDispatch \/ QNoPeer \/ QFetchDone \/ QFetchFail \/ QEmit
             \/ QDrain \/ QClose

---------------------------------------------------------------------------
(* roundRobinSync. *)

NoReq == [StartSlot |-> 0, Count |-> 0, Step |-> 0]

\* Lines 49-54: the queue's target.
QueueTarget(ps) == StartSlot(highestFinalizedEpoch(ps) + 1)

\* The state after the Service is constructed and before roundRobinSync:
\* the local chain holds the canonical blocks up to its head.
Init ==
    /\ pc = "start"
    /\ result = "running"
    /\ lastProcessedSlot = 0
    /\ counter = 0
    /\ peers \in [Peers -> PeerStatus]
    /\ headSlot \in { h \in 0 .. MaxSlot : h + MaxBehind >= QueueTarget(peers) }
    /\ db = { CanonRoot(s) : s \in 0 .. headSlot }
    /\ initSyncCache = {}
    /\ now \in headSlot .. MaxSlot
    /\ qState = "idle"
    /\ highestExpectedSlot = 0
    /\ qLow = 0
    /\ qSub = [s \in {} |-> NewSub]
    /\ fetchedBlocks = <<>>
    /\ chanClosed = FALSE
    /\ emitted = <<>>
    /\ blocksPerSecond = 0
    /\ best = NoPeer
    /\ target = 0
    /\ batch = <<>>
    /\ batchLen = 0
    /\ selections = 0
    /\ waits = 0
    /\ requests = 0
    /\ lastReq = NoReq
    /\ reqErr = NotCalled
    /\ guardEq = FALSE
    /\ lastEvent = NoEvent
    /\ handed = 0
    /\ accepted = <<>>
    /\ CodecAtRest
    /\ AggregateAtRest
    /\ ClientAtRest

\* Line 48: the watermark starts at the local head.
InitialWatermark(head) == head


\* Lines 47-57: the watermark is set to the head, the queue is built for
\* the slots after the head up to the target, and started.
StartSync ==
    /\ pc = "start"
    /\ lastProcessedSlot' = InitialWatermark(headSlot)
    /\ NewQueue(headSlot + 1, QueueTarget(peers))
    /\ pc' = "phase1"
    /\ UNCHANGED <<result, blocksPerSecond, best, target, batch, batchLen,
                   selections, waits, requests, lastReq, reqErr, guardEq>>
    /\ UNCHANGED <<counter, headSlot, db, initSyncCache, lastEvent, handed,
                   accepted>>
    /\ UNCHANGED envVars

\* A slip: phase 1 leaves on a failed block, as phase 2 does.
AfterPhase1Block_Aborts(err) == IF err = ErrNil THEN "phase1" ELSE "done"

\* Where phase 1 goes after processBlock returned err (lines 62-65).
AfterPhase1Block(err) == "phase1"

\* Lines 61-66: one block from the channel goes through processBlock.
Phase1Block ==
    /\ pc = "phase1"
    /\ fetchedBlocks # <<>>
    /\ LET blk == Head(fetchedBlocks)
       IN  \E c \in ReceiverChoices(blk, "ReceiveBlockInitialSync") :
             /\ ProcessBlock(blk, "ReceiveBlockInitialSync", c.rres, c.moveHead)
             /\ pc' = AfterPhase1Block(lastEvent'.err)
    /\ fetchedBlocks' = Tail(fetchedBlocks)
    /\ UNCHANGED <<result, blocksPerSecond, best, target, batch, batchLen,
                   selections, waits, requests, lastReq, reqErr, guardEq>>
    /\ UNCHANGED <<qState, highestExpectedSlot, qLow, qSub, chanClosed, emitted>>
    /\ UNCHANGED envVars

\* A slip: the loop ends as soon as the channel is empty.
Phase1Ended_WhenEmpty(chan, closed) == chan = <<>>

\* The range loop of line 61 ends: the channel is closed and empty.
Phase1Ended(chan, closed) == closed /\ chan = <<>>

\* Lines 66-68: the loop over the channel ends.
Phase1End ==
    /\ pc = "phase1"
    /\ Phase1Ended(fetchedBlocks, chanClosed)
    /\ pc' = "stopq"
    /\ UNCHANGED <<result, blocksPerSecond, best, target, batch, batchLen,
                   selections, waits, requests, lastReq, reqErr, guardEq>>
    /\ UNCHANGED <<gateVars, envVars, queueVars>>

\* Lines 69-71: queue.stop().
StopQueue ==
    /\ pc = "stopq"
    /\ QueueStop
    /\ pc' = "guard"
    /\ UNCHANGED <<result, blocksPerSecond, best, target, batch, batchLen,
                   selections, waits, requests, lastReq, reqErr, guardEq>>
    /\ UNCHANGED <<gateVars, envVars>>

\* A slip: the guard compares with > for ==.
HeadIsCurrent_Beyond(head, clock) == head > clock

\* Line 73: the head is at the wall-clock slot.
HeadIsCurrent(head, clock) == head = clock

\* Lines 73-75: phase 2 is skipped.
SkipPhase2 ==
    /\ pc = "guard"
    /\ HeadIsCurrent(headSlot, now)
    /\ guardEq' = TRUE
    /\ result' = ErrNil
    /\ pc' = "done"
    /\ UNCHANGED <<blocksPerSecond, best, target, batch, batchLen,
                   selections, waits, requests, lastReq, reqErr>>
    /\ UNCHANGED <<gateVars, envVars, queueVars>>

\* Lines 83-86: the fetcher of phase 2 is built, with its budget.
EnterPhase2 ==
    /\ pc = "guard"
    /\ ~HeadIsCurrent(headSlot, now)
    /\ blocksPerSecond' \in 1 .. MaxBlocksPerSecond
    /\ pc' = "select"
    /\ UNCHANGED <<result, best, target, batch, batchLen,
                   selections, waits, requests, lastReq, reqErr, guardEq>>
    /\ UNCHANGED <<gateVars, envVars, queueVars>>

\* A slip: an empty selection ends the run.
AfterEmptySelection_GivesUp == "done"

\* Where the run goes after a selection that found no peer (lines 91-98):
\* it sleeps and selects again.
AfterEmptySelection == "select"

\* Lines 91-98: no peer qualifies; sleep refreshTime and select again.
WaitForPeer ==
    /\ pc = "select"
    /\ BestFinalized(peers, highestFinalizedEpoch(peers)) = {}
    /\ waits < MaxWaits
    /\ selections' = selections + 1
    /\ waits' = waits + 1
    /\ pc' = AfterEmptySelection
    /\ result' = IF pc' = "done" THEN ErrNil ELSE result
    /\ UNCHANGED <<blocksPerSecond, best, target, batch, batchLen,
                   requests, lastReq, reqErr, guardEq>>
    /\ UNCHANGED <<gateVars, envVars, queueVars>>

\* Lines 87-101: a peer qualifies; it is the best one, and the loop's head
\* is the wall-clock slot.
SelectPeer ==
    /\ pc = "select"
    /\ \E p \in BestFinalized(peers, highestFinalizedEpoch(peers)) : best' = p
    /\ selections' = selections + 1
    /\ target' = now
    /\ pc' = "loop"
    /\ UNCHANGED <<result, blocksPerSecond, batch, batchLen,
                   waits, requests, lastReq, reqErr, guardEq>>
    /\ UNCHANGED <<gateVars, envVars, queueVars>>

\* A slip: the loop goes on one slot too far.
LoopContinues_AtTarget(head, tgt) == head <= tgt

\* Line 101: the loop goes on while the head is below the loop's head.
LoopContinues(head, tgt) == head < tgt

\* The modulus of the unsigned slot arithmetic (2^64, scaled down).
Uint64Modulus == 16
\* a - b and a + b on unsigned words: a difference below zero wraps.
Sub64(a, b) == (a - b + Uint64Modulus) % Uint64Modulus
Add64(a, b) == (a + b) % Uint64Modulus

\* A slip: the request starts at the head and counts without the + 1.
RangeRequest_FromHead(head, clock, bps) ==
    [StartSlot |-> head,
     Count |-> Min(Sub64(clock, head), bps),
     Step |-> 1]

\* Lines 102-108: the range request.
RangeRequest(head, clock, bps) ==
    [StartSlot |-> head + 1,
     Count |-> Min(Add64(Sub64(clock, head), 1), bps),
     Step |-> 1]

\* What requestBlocks may return for req: an error, or the peer's blocks
\* for the requested slots.
RequestBlocksResults(req) ==
    RangeResponses(req.StartSlot, req.StartSlot + req.Count - 1)

\* What requestBlocks may return as its error.
RequestErrors == {"request error"}

\* A slip: a failed request is sent again.
AfterRequest_Retries(err) == IF err = ErrNil THEN "batch" ELSE "loop"

\* Where the loop goes after requestBlocks returned err (lines 113-117):
\* an error ends the run.
AfterRequest(err) == IF err = ErrNil THEN "batch" ELSE "done"

\* Lines 113-117: the request fails; initial sync is left.
Phase2RequestFails ==
    /\ pc = "loop"
    /\ LoopContinues(headSlot, target)
    /\ lastReq' = RangeRequest(headSlot, now, blocksPerSecond)
    /\ requests' = requests + 1
    /\ reqErr' \in RequestErrors
    /\ pc' = AfterRequest(reqErr')
    /\ result' = IF pc' = "done" THEN ErrNil ELSE result
    /\ UNCHANGED <<blocksPerSecond, best, target, batch, batchLen,
                   selections, waits, guardEq>>
    /\ UNCHANGED <<gateVars, envVars, queueVars>>

\* Lines 102-113: the request is answered with resp.
Phase2Request ==
    /\ pc = "loop"
    /\ LoopContinues(headSlot, target)
    /\ LET req == RangeRequest(headSlot, now, blocksPerSecond)
       IN  /\ lastReq' = req
           /\ \E resp \in RequestBlocksResults(req) :
                /\ batch' = resp
                /\ batchLen' = Len(resp)
    /\ requests' = requests + 1
    /\ reqErr' = ErrNil
    /\ pc' = AfterRequest(reqErr')
    /\ UNCHANGED <<result, blocksPerSecond, best, target,
                   selections, waits, guardEq>>
    /\ UNCHANGED <<gateVars, envVars, queueVars>>

\* Line 101: the head reached the loop's head.
Phase2Reached ==
    /\ pc = "loop"
    /\ ~LoopContinues(headSlot, target)
    /\ result' = ErrNil
    /\ pc' = "done"
    /\ UNCHANGED <<blocksPerSecond, best, target, batch, batchLen,
                   selections, waits, requests, lastReq, reqErr, guardEq>>
    /\ UNCHANGED <<gateVars, envVars, queueVars>>

\* A slip: phase 2 skips a failed block, as phase 1 does.
AfterPhase2Block_Skips(err) == "batch"

\* Where phase 2 goes after processBlock returned err (lines 120-123).
AfterPhase2Block(err) == IF err = ErrNil THEN "batch" ELSE "done"

\* Lines 118-124: the next block of resp goes through processBlock.
Phase2Block ==
    /\ pc = "batch"
    /\ batch # <<>>
    /\ LET blk == Head(batch)
       IN  \E c \in ReceiverChoices(blk, "ReceiveBlockNoPubsub") :
             /\ ProcessBlock(blk, "ReceiveBlockNoPubsub", c.rres, c.moveHead)
             /\ pc' = AfterPhase2Block(lastEvent'.err)
             /\ result' = IF pc' = "done" THEN ErrNil ELSE result
    /\ batch' = Tail(batch)
    /\ UNCHANGED <<blocksPerSecond, best, target, batchLen,
                   selections, waits, requests, lastReq, reqErr, guardEq>>
    /\ UNCHANGED <<envVars, queueVars>>

\* A slip: the check for an empty resp is lost.
AfterBatch_AsksAgain(n) == "loop"

\* Where the loop goes after a resp of n blocks was processed (lines
\* 125-127): an empty resp breaks out of the loop.
AfterBatch(n) == IF n = 0 THEN "done" ELSE "loop"

\* Lines 125-128: resp is used up; an empty resp ends the loop.
Phase2BatchEnd ==
    /\ pc = "batch"
    /\ batch = <<>>
    /\ pc' = AfterBatch(batchLen)
    /\ result' = IF pc' = "done" THEN ErrNil ELSE result
    /\ UNCHANGED <<blocksPerSecond, best, target, batch, batchLen,
                   selections, waits, requests, lastReq, reqErr, guardEq>>
    /\ UNCHANGED <<gateVars, envVars, queueVars>>

---------------------------------------------------------------------------
(* The environment. *)

\* The wall clock reaches the next slot.  The run reads the clock at the
\* guard of line 73, whose value Init chooses, and then while it selects a
\* peer and builds requests.
Tick ==
    /\ pc \in {"select", "loop"}
    /\ now < MaxSlot
    /\ now' = now + 1
    /\ UNCHANGED <<peers, codecVars, aggVars, clientVars, orchVars, gateVars,
                   queueVars>>

\* A peer connects, disconnects or reports another chain state.  The run
\* reads the directory until phase 2 has selected its peer.
PeerChange ==
    /\ pc \in {"phase1", "select"}
    /\ \E p \in Peers : \E st \in PeerStatus \ {peers[p]} :
         peers' = [peers EXCEPT ![p] = st]
    /\ UNCHANGED <<now, codecVars, aggVars, clientVars, orchVars, gateVars,
                   queueVars>>

\* A step of the queue's own tasks, while the run goes on.
QueueTask(A) ==
    /\ pc # "done"
    /\ A
    /\ UNCHANGED <<orchVars, gateVars, envVars>>

Next ==
    \/ StartSync
    \/ Phase1Block
    \/ Phase1End
    \/ StopQueue
    \/ SkipPhase2
    \/ EnterPhase2
    \/ WaitForPeer
    \/ SelectPeer
    \/ Phase2RequestFails
    \/ Phase2Request
    \/ Phase2Reached
    \/ Phase2Block
    \/ Phase2BatchEnd
    \/ Tick
    \/ PeerChange
    \/ QueueTask(QDispatch)
    \/ QueueTask(QNoPeer)
    \/ QueueTask(QFetchDone)
    \/ QueueTask(QFetchFail)
    \/ QueueTask(QEmit)
    \/ QueueTask(QDrain)
    \/ QueueTask(QClose)

Spec == Init /\ [][Next]_vars

\* Phase 1 alone, with peers finalized up to QueueMaxEpoch, so that the
\* queue's interval holds several sub-ranges.
InitQueue ==
    /\ pc = "start"
    /\ result = "running"
    /\ lastProcessedSlot = 0
    /\ counter = 0
    /\ headSlot \in 0 .. MaxInitHead
    /\ db = { CanonRoot(s) : s \in 0 .. headSlot }
    /\ initSyncCache = {}
    /\ now = MaxSlot
    /\ peers \in [Peers -> {NotConnected, NoChainState} \cup (0 .. QueueMaxEpoch)]
    /\ qState = "idle"
    /\ highestExpectedSlot = 0
    /\ qLow = 0
    /\ qSub = [s \in {} |-> NewSub]
    /\ fetchedBlocks = <<>>
    /\ chanClosed = FALSE
    /\ emitted = <<>>
    /\ blocksPerSecond = 0
    /\ best = NoPeer
    /\ target = 0
    /\ batch = <<>>
    /\ batchLen = 0
    /\ selections = 0
    /\ waits = 0
    /\ requests = 0
    /\ lastReq = NoReq
    /\ reqErr = NotCalled
    /\ guardEq = FALSE
    /\ lastEvent = NoEvent
    /\ handed = 0
    /\ accepted = <<>>
    /\ CodecAtRest
    /\ AggregateAtRest
    /\ ClientAtRest

NextQueue ==
    \/ StartSync
    \/ Phase1Block
    \/ Phase1End
    \/ StopQueue
    \/ QueueTask(QDispatch)
    \/ QueueTask(QNoPeer)
    \/ QueueTask(QFetchDone)
    \/ QueueTask(QFetchFail)
    \/ QueueTask(QEmit)
    \/ QueueTask(QDrain)
    \/ QueueTask(QClose)

SpecQueue == InitQueue /\ [][NextQueue]_vars

---------------------------------------------------------------------------
(* Properties of the admission gate. *)

\* This step hands a block to processBlock: phase 1 takes it from the
\* channel, phase 2 from the batch.
Handing ==
    \/ pc = "phase1" /\ fetchedBlocks # <<>> /\ fetchedBlocks' = Tail(fetchedBlocks)
    \/ pc = "batch" /\ batch # <<>> /\ batch' = Tail(batch)

\* The block this step hands to processBlock.
Handed == IF pc = "phase1" THEN Head(fetchedBlocks) ELSE Head(batch)

\* The parent of blk is in the database or in the init-sync cache.
ParentKnown(blk) == blk.parentRoot \in (db \cup initSyncCache)

\* What a receiver can change stays as it is.
ReceiverUntouched == UNCHANGED <<db, initSyncCache, headSlot>>

RECURSIVE StrictlyIncreasing(_)
StrictlyIncreasing(seq) ==
    \/ Len(seq) <= 1
    \/ /\ seq[1] < seq[2]
       /\ StrictlyIncreasing(Tail(seq))

NoDuplicates(seq) ==
    \A i, j \in 1 .. Len(seq) : i # j => seq[i] # seq[j]

\* C1: in a sync run the watermark lastProcessedSlot starts at the local
\* head slot and from then on never decreases; it changes only in a step
\* in which processBlock accepts a block, and every accepted block sets
\* it to its own slot, which is strictly above the value before.
C1_WatermarkStrictlyIncreasing ==
    [][ /\ (pc = "start" /\ pc' # "start") => lastProcessedSlot' = headSlot
        /\ pc # "start" =>
             /\ lastProcessedSlot' >= lastProcessedSlot
             /\ lastProcessedSlot' # lastProcessedSlot =>
                  Handing /\ lastEvent'.err = ErrNil
             /\ (Handing /\ lastEvent'.err = ErrNil) =>
                  /\ lastProcessedSlot' = Handed.slot
                  /\ Handed.slot > lastProcessedSlot
      ]_vars

\* C1 witness: two blocks were accepted one after the other and the
\* watermark is the slot of the second.
C1_Witness ==
    /\ Len(accepted) >= 2
    /\ lastProcessedSlot = accepted[Len(accepted)]
    /\ accepted[Len(accepted) - 1] < lastProcessedSlot

\* C2: a block whose slot is at or below the watermark is rejected with
\* the slot error and the receiver is not asked, nothing is accepted and
\* nothing a receiver writes changes; and the accepted blocks never hold
\* two blocks of one slot.
C2_SlotAtOrBelowWatermarkRejected ==
    /\ [][ (Handing /\ Handed.slot <= lastProcessedSlot) =>
             /\ lastEvent'.err = ErrSlotProcessed
             /\ lastEvent'.called = 0
             /\ UNCHANGED <<lastProcessedSlot, accepted>>
             /\ ReceiverUntouched
         ]_vars
    /\ [] NoDuplicates(accepted)

\* C2 witness: the last block handed in was at or below the watermark
\* and was rejected for it, after a block had been accepted.
C2_Witness ==
    /\ lastEvent.err = ErrSlotProcessed
    /\ lastEvent.called = 0
    /\ Len(accepted) >= 1

\* C3: a block whose parent root is in neither store is rejected and the
\* receiver is not asked; a block is accepted, or handed to a receiver,
\* only if its parent root is in one of the stores at that moment.
C3_OrphanRejected ==
    [][ Handing =>
          /\ ~ParentKnown(Handed) =>
               /\ lastEvent'.err \in {ErrNoParent, ErrSlotProcessed}
               /\ (Handed.slot > lastProcessedSlot => lastEvent'.err = ErrNoParent)
               /\ lastEvent'.called = 0
               /\ UNCHANGED <<lastProcessedSlot, accepted>>
               /\ ReceiverUntouched
          /\ (lastEvent'.err = ErrNil \/ lastEvent'.called = 1) => ParentKnown(Handed)
      ]_vars

\* C3 witness: the last block handed in passed the slot check and was
\* rejected because its parent is unknown.
C3_Witness ==
    /\ lastEvent.err = ErrNoParent
    /\ lastEvent.called = 0

\* C4: when processBlock fails, whatever the reason, the watermark and the
\* accepted blocks stay as they are; an error of the receiver is returned
\* as it is; and earlier failures do not count against a block: a block
\* above the watermark whose parent is known is handed to the receiver and
\* is accepted when the receiver accepts it.
C4_FailureLeavesWatermark ==
    [][ Handing =>
          /\ lastEvent'.err # ErrNil =>
               /\ UNCHANGED <<lastProcessedSlot, accepted>>
               /\ ReceiverUntouched
          /\ (lastEvent'.called = 1 /\ lastEvent'.answer # ErrNil) =>
               lastEvent'.err = lastEvent'.answer
          /\ (Handed.slot > lastProcessedSlot /\ ParentKnown(Handed)) =>
               /\ lastEvent'.called = 1
               /\ lastEvent'.answer = ErrNil =>
                    /\ lastEvent'.err = ErrNil
                    /\ lastProcessedSlot' = Handed.slot
                    /\ accepted' = Append(accepted, Handed.slot)
      ]_vars

\* C4 witness: phase 1 took every emitted block from the channel, one of
\* them failed, and the last one was accepted after that failure.
C4_Witness ==
    /\ pc = "phase1"
    /\ fetchedBlocks = <<>>
    /\ lastEvent.err = ErrNil
    /\ lastEvent.called = 1
    /\ Len(emitted) = 2
    /\ accepted = <<emitted[2]>>

\* C5: a receiver runs only inside processBlock, at most once for the
\* block handed in, and only after the slot check and the parent check
\* have passed: whatever a receiver writes changes only in such a step,
\* the init-sync receiver only in phase 1 and the database receiver only
\* in phase 2.
C5_ReceiverOnlyBehindGate ==
    [][ /\ (lastEvent' # lastEvent \/ ~ReceiverUntouched) => Handing
        /\ Handing =>
             /\ lastEvent'.called \in {0, 1}
             /\ (lastEvent'.called = 1 \/ ~ReceiverUntouched) =>
                  /\ Handed.slot > lastProcessedSlot
                  /\ ParentKnown(Handed)
                  /\ lastEvent'.called = 1
             /\ initSyncCache' # initSyncCache => pc = "phase1"
             /\ db' # db => pc = "batch"
      ]_vars

\* C5 witness: both receivers have accepted a block: the init-sync cache
\* and the database each hold a block of this run.
C5_Witness ==
    /\ initSyncCache # {}
    /\ \E s \in 1 .. MaxSlot : \E blk \in BlocksAt(s) :
           BlockRoot(blk) \in db /\ blk.parentRoot \in initSyncCache
    /\ lastEvent.called = 1

---------------------------------------------------------------------------
(* Properties of roundRobinSync. *)

\* The order of the positions of roundRobinSync.
Rank(p) ==
    CASE p = "start" -> 0
      [] p = "phase1" -> 1
      [] p = "stopq" -> 2
      [] p = "guard" -> 3
      [] p = "select" -> 4
      [] p \in {"loop", "batch"} -> 5
      [] p = "done" -> 6

InPhase2(p) == p \in {"select", "loop", "batch"}

\* This step selects a peer, sleeps for one, or sends a range request.
Phase2Step ==
    \/ selections' # selections
    \/ waits' # waits
    \/ requests' # requests
    \/ best' # best

\* C7: roundRobinSync goes through phase 1, phase 2 and its end in that
\* order and never back; it leaves phase 1 only when the channel is closed
\* and empty, and then stops the queue; whenever it is in phase 2 the
\* queue is stopped, and every peer selection, sleep and range request
\* happens in phase 2, with the queue stopped.
C7_PhasesInOrder ==
    /\ [][ /\ Rank(pc') >= Rank(pc)
           /\ (pc = "phase1" /\ pc' # "phase1") =>
                /\ chanClosed
                /\ fetchedBlocks = <<>>
                /\ pc' = "stopq"
           /\ (pc = "stopq" /\ pc' # "stopq") =>
                /\ pc' = "guard"
                /\ qState' = "stopped"
           /\ (InPhase2(pc') /\ ~InPhase2(pc)) => pc = "guard"
           /\ Phase2Step =>
                /\ InPhase2(pc)
                /\ qState = "stopped"
                /\ chanClosed
         ]_vars
    /\ [] (InPhase2(pc) => qState = "stopped" /\ chanClosed)

\* C7 witness: a run that accepted a block in phase 1, sent a range
\* request in phase 2 and has ended.
C7_Witness ==
    /\ pc = "done"
    /\ initSyncCache # {}
    /\ requests >= 1

\* C8: in phase 1 a block that processBlock rejects is skipped: the run
\* stays in phase 1 and has not returned, and every block the queue emits
\* is handed to processBlock before phase 1 ends.
C8_Phase1SkipsRejected ==
    /\ [][ (pc = "phase1" /\ Handing) =>
             /\ pc' = "phase1"
             /\ result' = "running"
             /\ handed' = handed + 1
         ]_vars
    /\ [] (pc = "phase1" => handed + Len(fetchedBlocks) = Len(emitted))
    /\ [] (pc \in {"stopq", "guard"} =>
             fetchedBlocks = <<>> /\ handed = Len(emitted))

\* C8 witness: phase 1 is over; its first block was rejected and its
\* second block, handed in after that, was accepted.
C8_Witness ==
    /\ pc = "stopq"
    /\ handed = 2
    /\ Len(emitted) = 2
    /\ accepted = <<emitted[2]>>

\* How a step may end the run: the guard of line 73, the loop condition of
\* line 101, a failed request, a failed block of phase 2, an empty batch.
EndsRegularly ==
    \/ pc = "guard" /\ headSlot = now
    \/ pc = "loop" /\ ~(headSlot < target)
    \/ pc = "loop" /\ requests' = requests + 1
    \/ pc = "batch" /\ Handing /\ lastEvent'.err # ErrNil
    \/ pc = "batch" /\ batch = <<>> /\ batchLen = 0

\* The accepted blocks stay, and grow only by the block accepted now.
AcceptedKept ==
    \/ accepted' = accepted
    \/ /\ Handing
       /\ lastEvent'.err = ErrNil
       /\ accepted' = Append(accepted, Handed.slot)

C10_GuardSkipsPhase2 ==
    /\ [][ (pc = "guard" /\ headSlot = now) =>
             /\ pc' = "done"
             /\ result' = ErrNil
             /\ guardEq'
             /\ UNCHANGED <<gateVars, queueVars>>
         ]_vars
    /\ [] (guardEq =>
             /\ pc = "done"
             /\ result = ErrNil
             /\ selections = 0
             /\ waits = 0
             /\ requests = 0
             /\ best = NoPeer
             /\ blocksPerSecond = 0)

\* C10 witness: phase 1 brought the head to the wall-clock slot and the
\* guard ended the run.
C10_Witness ==
    /\ guardEq
    /\ pc = "done"
    /\ Len(accepted) >= 1
    /\ headSlot = now

---------------------------------------------------------------------------
(* Properties of the queue's output. *)

\* The slots a..b in order.
SlotSeq(a, b) == [i \in 1 .. (IF b >= a THEN b - a + 1 ELSE 0) |-> a + i - 1]

\* The sub-range a slot belongs to.
SubOf(slot) ==
    CHOOSE s \in DOMAIN qSub : s <= slot /\ slot <= SubEnd(s, highestExpectedSlot)

\* Every sub-range was fetched and its peer sent a block for each slot.
AllFetchedInFull ==
    \A s \in DOMAIN qSub :
        /\ qSub[s].st = "done"
        /\ qSub[s].got = SubEnd(s, highestExpectedSlot) - s + 1

\* A step that emits a block takes it from a fetched sub-range behind
\* which no earlier sub-range is still unfinished.
EmitsInTurn ==
    emitted' # emitted =>
        /\ Len(emitted') = Len(emitted) + 1
        /\ SubSeq(emitted', 1, Len(emitted)) = emitted
        /\ LET slot == emitted'[Len(emitted')]
           IN  /\ slot \in qLow .. highestExpectedSlot
               /\ qSub[SubOf(slot)].st = "done"
               /\ \A t \in DOMAIN qSub : t < SubOf(slot) => Finished(qSub[t])

---------------------------------------------------------------------------
(* Properties of phase 2. *)

\* The peers a selection made now would yield.
Selectable == BestFinalized(peers, highestFinalizedEpoch(peers))

\* This step runs a peer selection.
Selecting == selections' = selections + 1

\* C11: while the selection of phase 2 yields no peer, the run sends no
\* range request and does not return: a selection that yields no peer is
\* followed by one sleep and the next selection, and the first selection
\* that yields a peer starts the batch loop with one of the best peers,
\* which the loop keeps.
C11_WaitsForPeer ==
    /\ [][ /\ (pc = "select" /\ Selecting /\ Selectable = {}) =>
                /\ pc' = "select"
                /\ result' = "running"
                /\ waits' = waits + 1
                /\ UNCHANGED <<requests, lastReq, best, batch>>
           /\ (pc = "select" /\ Selecting /\ Selectable # {}) =>
                /\ pc' = "loop"
                /\ best' \in Selectable
                /\ waits' = waits
                /\ UNCHANGED <<requests, lastReq>>
           /\ selections' # selections => pc = "select" /\ Selecting
           /\ waits' # waits => Selecting
           /\ pc \in {"loop", "batch"} => best' = best
         ]_vars
    /\ [] (pc = "select" =>
             /\ selections = waits
             /\ requests = 0
             /\ best = NoPeer
             /\ result = "running")
    /\ [] (pc \in {"loop", "batch"} => selections = waits + 1 /\ best \in Peers)

\* C11 witness: a selection found no peer, the run slept, the next
\* selection found one and a request went to it.
C11_Witness ==
    /\ waits >= 1
    /\ selections = waits + 1
    /\ best \in Peers
    /\ requests >= 1

\* This step sends a range request.
Requesting == requests' = requests + 1

\* C12: when a range request of phase 2 fails, the run ends in that very
\* step and returns nil: the request is not repeated, no other peer is
\* chosen, no block is processed, and once the run has ended nothing of
\* it changes any more.
C12_RequestFailureEndsRun ==
    /\ [][ /\ (Requesting /\ reqErr' # ErrNil) =>
                /\ pc = "loop"
                /\ pc' = "done"
                /\ result' = ErrNil
                /\ UNCHANGED <<best, selections, waits, batch, batchLen>>
                /\ UNCHANGED gateVars
           /\ pc = "done" => UNCHANGED <<orchVars, gateVars>>
         ]_vars
    /\ [] ((reqErr \notin {ErrNil, NotCalled}) =>
             pc = "done" /\ result = ErrNil)

\* C12 witness: the first request was answered and its blocks accepted,
\* the second request failed, and the run has ended.
C12_Witness ==
    /\ pc = "done"
    /\ reqErr \in RequestErrors
    /\ requests = 2
    /\ accepted # <<>>
    /\ accepted[Len(accepted)] < lastReq.StartSlot

\* The last request was answered without error and without a block.
EmptyBatch == pc = "batch" /\ reqErr = ErrNil /\ batchLen = 0

\* C13: when a range request of phase 2 is answered with no block, the
\* head is below the loop's target slot and stays there, no block is
\* processed, no further request is sent, and the run ends returning nil.
C13_EmptyBatchEndsRun ==
    /\ [] (EmptyBatch => batch = <<>> /\ headSlot < target /\ result = "running")
    /\ [][ EmptyBatch =>
             /\ ~Requesting
             /\ UNCHANGED <<gateVars, best, selections, waits>>
             /\ pc' # pc =>
                  /\ pc' = "done"
                  /\ result' = ErrNil
                  /\ headSlot' < target'
         ]_vars
    /\ [][ pc = "done" => UNCHANGED <<requests, result, headSlot>> ]_vars

\* C13 witness: the first request brought blocks that were accepted, the
\* second brought none, and the run has ended with the head below the
\* target slot.
C13_Witness ==
    /\ pc = "done"
    /\ result = ErrNil
    /\ reqErr = ErrNil
    /\ batchLen = 0
    /\ requests = 2
    /\ accepted # <<>>
    /\ headSlot < target

\* C14: the batch loop runs against the wall-clock slot read when the
\* loop starts (the target), which the clock has reached or passed: a
\* range request is sent only while the head slot is strictly below the
\* target, hence below the wall-clock slot; once the head is at the target
\* or beyond, no request follows and the loop condition ends the run,
\* which returns nil.
C14_StopsAtWallClockSlot ==
    /\ [] (pc \in {"loop", "batch"} => target <= now)
    /\ [][ /\ Requesting =>
                /\ pc = "loop"
                /\ headSlot < target
                /\ headSlot < now
           /\ (pc \in {"loop", "batch"} /\ headSlot >= target) => ~Requesting
           /\ (pc = "loop" /\ headSlot >= target /\ pc' # pc) =>
                /\ pc' = "done"
                /\ result' = ErrNil
                /\ UNCHANGED gateVars
           /\ pc \in {"loop", "batch"} => target' = target
         ]_vars

\* C14 witness: a request was answered, its last block was accepted and
\* took the head to the target slot, and the loop condition ended the run.
C14_Witness ==
    /\ pc = "done"
    /\ result = ErrNil
    /\ requests >= 1
    /\ reqErr = ErrNil
    /\ batchLen >= 1
    /\ batch = <<>>
    /\ lastEvent.err = ErrNil
    /\ headSlot >= target
    /\ headSlot = lastProcessedSlot

---------------------------------------------------------------------------
(* The life cycle of the queue under an arbitrary caller. *)

\* A queue built for the slots after the head and not started; the caller
\* has called neither start() nor stop().
InitLifecycle ==
    /\ pc = "built"
    /\ result = "running"
    /\ lastProcessedSlot = 0
    /\ counter = 0
    /\ headSlot \in 0 .. MaxInitHead
    /\ db = { CanonRoot(s) : s \in 0 .. headSlot }
    /\ initSyncCache = {}
    /\ now = MaxSlot
    /\ peers \in [Peers -> {NotConnected} \cup (0 .. QueueMaxEpoch)]
    /\ qState = "idle"
    /\ highestExpectedSlot = QueueTarget(peers)
    /\ qLow = headSlot + 1
    /\ qSub = [s \in SubStarts(headSlot + 1, QueueTarget(peers)) |-> NewSub]
    /\ fetchedBlocks = <<>>
    /\ chanClosed = FALSE
    /\ emitted = <<>>
    /\ blocksPerSecond = 0
    /\ best = NoPeer
    /\ target = 0
    /\ batch = <<>>
    /\ batchLen = 0
    /\ selections = 0
    /\ waits = 0
    /\ requests = 0
    /\ lastReq = NoReq
    /\ reqErr = NotCalled
    /\ guardEq = FALSE
    /\ lastEvent = NoEvent
    /\ handed = 0
    /\ accepted = <<>>
    /\ CodecAtRest
    /\ AggregateAtRest
    /\ ClientAtRest

\* The caller calls start(); pc keeps the caller's last call.
CallStart ==
    /\ qState' = QueueStart(qState)
    /\ pc' = "start()"
    /\ UNCHANGED <<highestExpectedSlot, qLow, qSub, fetchedBlocks, chanClosed,
                   emitted>>
    /\ UNCHANGED <<result, blocksPerSecond, best, target, batch, batchLen,
                   selections, waits, requests, lastReq, reqErr, guardEq>>
    /\ UNCHANGED <<gateVars, envVars>>

\* The caller calls stop(), whatever the state of the queue.
CallStop ==
    /\ QueueStop
    /\ pc' = "stop()"
    /\ UNCHANGED <<result, blocksPerSecond, best, target, batch, batchLen,
                   selections, waits, requests, lastReq, reqErr, guardEq>>
    /\ UNCHANGED <<gateVars, envVars>>

\* The caller takes a block from the channel.
CallReceive ==
    /\ fetchedBlocks # <<>>
    /\ fetchedBlocks' = Tail(fetchedBlocks)
    /\ UNCHANGED <<qState, highestExpectedSlot, qLow, qSub, chanClosed, emitted>>
    /\ UNCHANGED <<orchVars, gateVars, envVars>>

NextLifecycle ==
    \/ CallStart
    \/ CallStop
    \/ CallReceive
    \/ QueueTask(QDispatch)
    \/ QueueTask(QNoPeer)
    \/ QueueTask(QFetchDone)
    \/ QueueTask(QFetchFail)
    \/ QueueTask(QEmit)
    \/ QueueTask(QDrain)
    \/ QueueTask(QClose)

SpecLifecycle == InitLifecycle /\ [][NextLifecycle]_vars

\* This step is a call of stop().
Stopping == pc' = "stop()" /\ (pc # "stop()" \/ qState' # qState \/ qSub' # qSub)

---------------------------------------------------------------------------
(* The chunk codec: rpc_chunked_response.go. *)

\* responseCodeSuccess: the status byte of a successful response.
responseCodeSuccess == 0
\* maxChunkSize: the highest payload length a chunk may have (scaled down).
maxChunkSize == 2
\* Messages have payloads of 0..MaxMsgLen bytes.
MaxMsgLen == 3

PayloadBytes == {0, 1}
Messages == UNION { [1 .. n -> PayloadBytes] : n \in 0 .. MaxMsgLen }
\* The status codes a peer may send: success and a failure code.
StatusCodes == {responseCodeSuccess, 1}

\* The encoding: an encoding-dependent header, the payload's length,
\* followed by the payload.
Frame(msg) == <<Len(msg)>> \o msg

\* How many bytes a stream may take before its Write fails.
Rooms == 0 .. (MaxMsgLen + 2)

ErrIO == CodecError("io", <<>>)
ErrTooLarge == CodecError("too large", <<>>)
ErrMalformed == CodecError("malformed", <<>>)

\* encoding.EncodeWithMaxLength(stream, msg, max) on a stream with room for
\* `room` bytes: the bytes written and the error returned.
EncodeWithMaxLength(msg, max, room) ==
    IF Len(msg) > max
    THEN [out |-> <<>>, err |-> ErrTooLarge]
    ELSE IF room >= Len(Frame(msg))
    THEN [out |-> Frame(msg), err |-> NoError]
    ELSE [out |-> SubSeq(Frame(msg), 1, room), err |-> ErrIO]

\* A slip: the error of the status byte's Write is dropped.
WriteChunk_EncodesAnyway(msg, room) ==
    LET e == EncodeWithMaxLength(msg, maxChunkSize, IF room < 1 THEN 0 ELSE room - 1)
    IN  [bytes |-> (IF room < 1 THEN <<>> ELSE <<responseCodeSuccess>>) \o e.out,
         ops |-> <<"Write", "EncodeWithMaxLength">>,
         err |-> e.err]

\* A slip: a failing encoder takes the status byte back off the stream.
WriteChunk_Atomic(msg, room) ==
    IF room < 1
    THEN [bytes |-> <<>>, ops |-> <<"Write">>, err |-> ErrIO]
    ELSE LET e == EncodeWithMaxLength(msg, maxChunkSize, room - 1)
         IN  [bytes |-> IF e.err = NoError
                        THEN <<responseCodeSuccess>> \o e.out ELSE <<>>,
              ops |-> <<"Write", "EncodeWithMaxLength">>,
              err |-> e.err]

\* WriteChunk (lines 23-29) on a stream with room for `room` bytes: the
\* bytes written, the calls made on the stream, and the error returned.
WriteChunk(msg, room) ==
    IF room < 1
    THEN [bytes |-> <<>>, ops |-> <<"Write">>, err |-> ErrIO]
    ELSE LET e == EncodeWithMaxLength(msg, maxChunkSize, room - 1)
         IN  [bytes |-> <<responseCodeSuccess>> \o e.out,
              ops |-> <<"Write", "EncodeWithMaxLength">>,
              err |-> e.err]

\* chunkWriter (lines 16-19): the write deadline, then WriteChunk.
chunkWriter(msg, room) ==
    LET w == WriteChunk(msg, room)
    IN  [w EXCEPT !.ops = <<"SetStreamWriteDeadline">> \o w.ops]

\* encoding.DecodeWithMaxLength(stream, to, max) on a stream holding
\* `bytes`: the header is read and checked against max before the payload
\* is read.
DecodeWithMaxLength(bytes, max) ==
    IF bytes = <<>> THEN [val |-> <<>>, err |-> ErrIO]
    ELSE IF bytes[1] > max THEN [val |-> <<>>, err |-> ErrTooLarge]
    ELSE IF Len(bytes) - 1 < bytes[1] THEN [val |-> <<>>, err |-> ErrMalformed]
    ELSE [val |-> SubSeq(bytes, 2, bytes[1] + 1), err |-> NoError]

\* encoding.DecodeWithLength(stream, to): the same without a bound.
DecodeWithLength(bytes) ==
    DecodeWithMaxLength(bytes, IF bytes = <<>> THEN 0 ELSE bytes[1])

\* ReadStatusCode(stream, encoding): the status byte and, when it is not
\* the success code, the error text that follows it.
ReadStatusCode(bytes) ==
    IF bytes = <<>>
    THEN [code |-> 0, errMsg |-> <<>>, err |-> ErrIO, rest |-> <<>>]
    ELSE IF bytes[1] = responseCodeSuccess
    THEN [code |-> 0, errMsg |-> <<>>, err |-> NoError, rest |-> Tail(bytes)]
    ELSE LET d == DecodeWithLength(Tail(bytes))
         IN  IF d.err # NoError
             THEN [code |-> 0, errMsg |-> <<>>, err |-> d.err, rest |-> <<>>]
             ELSE [code |-> bytes[1], errMsg |-> d.val, err |-> NoError,
                   rest |-> <<>>]

\* A slip: the status code is not looked at.
readResponseChunk_IgnoresCode(bytes, to) ==
    LET st == ReadStatusCode(bytes)
        d == DecodeWithMaxLength(Tail(bytes), maxChunkSize)
    IN  IF st.err # NoError
        THEN [to |-> to, err |-> st.err,
              ops |-> <<"SetStreamReadDeadline", "ReadStatusCode">>]
        ELSE [to |-> IF d.err = NoError THEN d.val ELSE to, err |-> d.err,
              ops |-> <<"SetStreamReadDeadline", "ReadStatusCode",
                        "DecodeWithMaxLength">>]

\* A slip: the read path decodes under another bound than the write path.
readResponseChunk_OtherBound(bytes, to) ==
    LET st == ReadStatusCode(bytes)
    IN  IF st.err # NoError
        THEN [to |-> to, err |-> st.err,
              ops |-> <<"SetStreamReadDeadline", "ReadStatusCode">>]
        ELSE IF st.code # 0
        THEN [to |-> to, err |-> CodecError("peer", st.errMsg),
              ops |-> <<"SetStreamReadDeadline", "ReadStatusCode">>]
        ELSE LET d == DecodeWithMaxLength(st.rest, maxChunkSize - 1)
             IN  [to |-> IF d.err = NoError THEN d.val ELSE to,
                  err |-> d.err,
                  ops |-> <<"SetStreamReadDeadline", "ReadStatusCode",
                            "DecodeWithMaxLength">>]

\* readResponseChunk (lines 43-54) on a stream holding `bytes`, with the
\* destination `to`: the destination afterwards, the error returned and the
\* calls made on the stream.
readResponseChunk(bytes, to) ==
    LET st == ReadStatusCode(bytes)
    IN  IF st.err # NoError
        THEN [to |-> to, err |-> st.err,
              ops |-> <<"SetStreamReadDeadline", "ReadStatusCode">>]
        ELSE IF st.code # 0
        THEN [to |-> to, err |-> CodecError("peer", st.errMsg),
              ops |-> <<"SetStreamReadDeadline", "ReadStatusCode">>]
        ELSE LET d == DecodeWithMaxLength(st.rest, maxChunkSize)
             IN  [to |-> IF d.err = NoError THEN d.val ELSE to,
                  err |-> d.err,
                  ops |-> <<"SetStreamReadDeadline", "ReadStatusCode",
                            "DecodeWithMaxLength">>]

\* The nil block ReadChunkedBlock returns with an error.
NilBlock == <<-1>>

\* ReadChunkedBlock (lines 33-39): a fresh block as destination.
ReadChunkedBlock(bytes) ==
    LET r == readResponseChunk(bytes, <<>>)
    IN  [blk |-> IF r.err # NoError THEN NilBlock ELSE r.to,
         err |-> r.err, ops |-> r.ops, to |-> r.to]

\* What a peer may have put on the stream: a status code, a header and a
\* payload, or any beginning of that.
PeerStreams ==
    { SubSeq(<<c, n>> \o m, 1, Min(k, Len(m) + 2)) :
        c \in StatusCodes, n \in 0 .. MaxMsgLen, m \in Messages,
        k \in 0 .. (MaxMsgLen + 2) }

syncVars == <<orchVars, gateVars, now, peers, queueVars, aggVars, clientVars>>

\* s.chunkWriter(stream, msg) on an empty stream.
ChunkWriterCall ==
    /\ origin = "none"
    /\ \E msg \in Messages, room \in Rooms :
         LET w == chunkWriter(msg, room)
         IN  /\ stream' = stream \o w.bytes
             /\ msgIn' = msg
             /\ writeOps' = w.ops
             /\ writeErr' = w.err
    /\ origin' = "chunkWriter"
    /\ UNCHANGED <<readOps, readTo, readErr, blkOut>>
    /\ UNCHANGED syncVars

\* WriteChunk(stream, encoding, msg) called on its own on an empty stream.
WriteChunkCall ==
    /\ origin = "none"
    /\ \E msg \in Messages, room \in Rooms :
         LET w == WriteChunk(msg, room)
         IN  /\ stream' = stream \o w.bytes
             /\ msgIn' = msg
             /\ writeOps' = w.ops
             /\ writeErr' = w.err
    /\ origin' = "WriteChunk"
    /\ UNCHANGED <<readOps, readTo, readErr, blkOut>>
    /\ UNCHANGED syncVars

\* A remote peer wrote the stream.
PeerWrites ==
    /\ origin = "none"
    /\ stream' \in PeerStreams
    /\ origin' = "peer"
    /\ UNCHANGED <<msgIn, writeOps, writeErr, readOps, readTo, readErr, blkOut>>
    /\ UNCHANGED syncVars

\* readResponseChunk(stream, p2p, to) on the bytes of the stream.
ReadResponseChunkCall ==
    /\ origin # "none"
    /\ readOps = <<>>
    /\ LET r == readResponseChunk(stream, readTo)
       IN  /\ readTo' = r.to
           /\ readErr' = r.err
           /\ readOps' = r.ops
    /\ UNCHANGED <<stream, origin, msgIn, writeOps, writeErr, blkOut>>
    /\ UNCHANGED syncVars

\* ReadChunkedBlock(stream, p2p) on the bytes of the stream.
ReadChunkedBlockCall ==
    /\ origin # "none"
    /\ readOps = <<>>
    /\ LET r == ReadChunkedBlock(stream)
       IN  /\ readTo' = r.to
           /\ readErr' = r.err
           /\ readOps' = r.ops
           /\ blkOut' = r.blk
    /\ UNCHANGED <<stream, origin, msgIn, writeOps, writeErr>>
    /\ UNCHANGED syncVars

\* The chunk codec alone; the sync run has not started.
InitCodec ==
    /\ pc = "start"
    /\ result = "running"
    /\ lastProcessedSlot = 0
    /\ counter = 0
    /\ headSlot = 0
    /\ db = {GenesisRoot}
    /\ initSyncCache = {}
    /\ now = 0
    /\ peers = [p \in Peers |-> NotConnected]
    /\ qState = "idle"
    /\ highestExpectedSlot = 0
    /\ qLow = 0
    /\ qSub = [s \in {} |-> NewSub]
    /\ fetchedBlocks = <<>>
    /\ chanClosed = FALSE
    /\ emitted = <<>>
    /\ blocksPerSecond = 0
    /\ best = NoPeer
    /\ target = 0
    /\ batch = <<>>
    /\ batchLen = 0
    /\ selections = 0
    /\ waits = 0
    /\ requests = 0
    /\ lastReq = NoReq
    /\ reqErr = NotCalled
    /\ guardEq = FALSE
    /\ lastEvent = NoEvent
    /\ handed = 0
    /\ accepted = <<>>
    /\ CodecAtRest
    /\ AggregateAtRest
    /\ ClientAtRest

NextCodec ==
    \/ ChunkWriterCall
    \/ WriteChunkCall
    \/ PeerWrites
    \/ ReadResponseChunkCall
    \/ ReadChunkedBlockCall

SpecCodec == InitCodec /\ [][NextCodec]_vars

---------------------------------------------------------------------------
(* Properties of the chunk codec. *)

\* The stream was written by the write path of this node.
Written == origin \in {"chunkWriter", "WriteChunk"}

\* seq begins with pre.
StartsWith(seq, pre) ==
    Len(pre) <= Len(seq) /\ SubSeq(seq, 1, Len(pre)) = pre

ReadDone == readOps # <<>>

\* The bytes after the status byte hold a header and the whole payload it
\* announces.
WholeFrame(bytes) ==
    /\ Len(bytes) >= 2
    /\ Len(bytes) - 2 >= bytes[2]

\* The payload the header after the status byte announces.
FramePayload(bytes) == SubSeq(bytes, 3, bytes[2] + 2)

\* C17: the read path sets the read deadline and then reads the status.
\* With a status other than 0 it returns an error whose text is the error
\* text the peer sent, and does not decode into the destination; when the
\* status cannot be read it returns that error and does not decode; only
\* with status 0 it decodes the payload, under the bound maxChunkSize.
C17_ReadPathStatus ==
    ReadDone =>
      /\ readOps \in { <<"SetStreamReadDeadline", "ReadStatusCode">>,
                       <<"SetStreamReadDeadline", "ReadStatusCode",
                         "DecodeWithMaxLength">> }
      /\ Len(readOps) = 3 <=> (stream # <<>> /\ stream[1] = responseCodeSuccess)
      /\ stream = <<>> => readErr = ErrIO
      /\ (stream # <<>> /\ stream[1] # responseCodeSuccess) =>
           /\ readTo = <<>>
           /\ WholeFrame(stream) =>
                readErr = CodecError("peer", FramePayload(stream))
           /\ ~WholeFrame(stream) => readErr \in {ErrIO, ErrMalformed}
      /\ Len(readOps) = 2 => readTo = <<>> /\ readErr # NoError
      /\ Len(readOps) = 3 =>
           /\ (Len(stream) >= 2 /\ stream[2] > maxChunkSize) =>
                readErr = ErrTooLarge /\ readTo = <<>>
           /\ readErr = NoError =>
                /\ WholeFrame(stream)
                /\ stream[2] <= maxChunkSize
                /\ readTo = FramePayload(stream)
      /\ (blkOut = NilBlock) => readErr # NoError

\* C17 witness: a peer sent a failure status with an error text, and the
\* read path returned an error with that text without decoding.
C17_Witness ==
    /\ origin = "peer"
    /\ ReadDone
    /\ WholeFrame(stream)
    /\ stream[1] # responseCodeSuccess
    /\ readErr.kind = "peer"
    /\ Len(readErr.text) = 2
    /\ readErr.text = FramePayload(stream)
    /\ Len(readOps) = 2

\* The bytes a write of msg that met no transport failure leaves on the
\* stream.
Encoded(msg) == <<responseCodeSuccess>> \o Frame(msg)

---------------------------------------------------------------------------
(* The range requests of phase 2. *)

\* The highest budget blocksPerSecond of the fetcher in the runs of phase 2
\* alone.
Phase2MaxBudget == 3

\* Phase 2 alone: the run stands at the peer selection (line 87) after a
\* phase 1 in which the queue, built while no peer was connected, gave up
\* on every sub-range and handed over no block.  The head is below the
\* wall-clock slot (line 73), the fetcher has its budget.
InitPhase2 ==
    /\ pc = "select"
    /\ result = "running"
    /\ counter = 0
    /\ peers \in [Peers -> PeerStatus]
    /\ headSlot \in 0 .. (MaxSlot - 1)
    /\ lastProcessedSlot = InitialWatermark(headSlot)
    /\ db = { CanonRoot(s) : s \in 0 .. headSlot }
    /\ initSyncCache = {}
    /\ now \in { n \in headSlot .. MaxSlot : ~HeadIsCurrent(headSlot, n) }
    /\ qState = "stopped"
    /\ highestExpectedSlot = QueueTarget([p \in Peers |-> NotConnected])
    /\ qLow = headSlot + 1
    /\ qSub = [s \in SubStarts(qLow, highestExpectedSlot) |->
                 [NewSub EXCEPT !.st = "failed"]]
    /\ fetchedBlocks = <<>>
    /\ chanClosed = TRUE
    /\ emitted = <<>>
    /\ blocksPerSecond \in 1 .. Phase2MaxBudget
    /\ best = NoPeer
    /\ target = 0
    /\ batch = <<>>
    /\ batchLen = 0
    /\ selections = 0
    /\ waits = 0
    /\ requests = 0
    /\ lastReq = NoReq
    /\ reqErr = NotCalled
    /\ guardEq = FALSE
    /\ lastEvent = NoEvent
    /\ handed = 0
    /\ accepted = <<>>
    /\ CodecAtRest
    /\ AggregateAtRest
    /\ ClientAtRest

NextPhase2 ==
    \/ WaitForPeer
    \/ SelectPeer
    \/ Phase2RequestFails
    \/ Phase2Request
    \/ Phase2Reached
    \/ Phase2Block
    \/ Phase2BatchEnd
    \/ Tick
    \/ PeerChange

SpecPhase2 == InitPhase2 /\ [][NextPhase2]_vars

\* The request of lastReq was built from the present head and clock: its
\* answer is not yet touched, or it failed and the run is over.
RequestJustBuilt ==
    \/ pc = "batch" /\ Len(batch) = batchLen /\ reqErr = ErrNil
    \/ pc = "done" /\ reqErr \in RequestErrors

\* C19: every range request of phase 2 has step 1 and a count that does
\* not exceed the fetcher's budget blocksPerSecond; when it is built, its
\* start slot is the local head slot plus one and its count is the smaller
\* of the budget and the wall-clock slot minus the head slot plus one, as
\* computed without wrap-around: the clock is not below the head whenever
\* a request is about to be built or has just been built, so the unsigned
\* subtraction does not underflow.
C19_RangeRequestFields ==
    /\ requests > 0 =>
         /\ lastReq.Step = 1
         /\ lastReq.Count <= blocksPerSecond
    /\ (pc = "loop" /\ LoopContinues(headSlot, target)) => now > headSlot
    /\ RequestJustBuilt =>
         /\ requests > 0
         /\ now >= headSlot
         /\ lastReq.StartSlot = headSlot + 1
         /\ lastReq.Count = Min(now - headSlot + 1, blocksPerSecond)
         /\ lastReq.Count >= 1

\* C19 witness: a second request was built after the head moved, and the
\* distance to the clock, not the budget, gave its count.
C19_Witness ==
    /\ pc = "batch"
    /\ Len(batch) = batchLen
    /\ reqErr = ErrNil
    /\ requests >= 2
    /\ headSlot > 0
    /\ lastReq.StartSlot = headSlot + 1
    /\ lastReq.Count = now - headSlot + 1
    /\ lastReq.Count < blocksPerSecond

---------------------------------------------------------------------------
(* The target of the phase 1 queue. *)

\* The finalized epochs of the connected peers whose chain state is
\* available.
KnownFinalizedEpochs ==
    { e \in 0 .. QueueMaxEpoch :
        \E p \in Peers : peers[p] # NotConnected /\ peers[p] # NoChainState
                         /\ peers[p] = e }

\* C20: once the queue of phase 1 is built, its highestExpectedSlot is the
\* start slot of epoch E + 1, where E is the highest finalized epoch among
\* the connected peers whose chain state is available, and 0 when no peer
\* is connected or none has a chain state; a connected peer whose chain
\* state lookup fails does not count.  (In these runs the peer directory
\* does not change after the queue is built.)
C20_QueueTarget ==
    pc # "start" =>
      \E E \in 0 .. QueueMaxEpoch :
        /\ highestExpectedSlot = StartSlot(E + 1)
        /\ \A e \in KnownFinalizedEpochs : e <= E
        /\ IF KnownFinalizedEpochs = {} THEN E = 0
           ELSE E \in KnownFinalizedEpochs

\* C20 witness: the queue was built while one peer had no chain state and
\* the other had finalized an epoch above 0.
C20_Witness ==
    /\ pc # "start"
    /\ \E p \in Peers : peers[p] = NoChainState
    /\ \E p \in Peers : peers[p] >= 1
    /\ highestExpectedSlot = StartSlot(QueueMaxEpoch + 1)
    /\ highestExpectedSlot > StartSlot(1)

---------------------------------------------------------------------------
(* The rate counter and admission. *)

\* The counter values the runs that are compared may differ in.
MaxCounter == 3
CounterValues == 0 .. MaxCounter

\* The blocks that may be handed to processBlock.
CandidateBlocks == UNION { BlocksAt(s) : s \in 1 .. (MaxSlot + 1) }

\* The outcome of processBlock for blk in the present state, had the
\* counter the value cnt and the receiver, if asked, the answer rres.
OutcomeWith(blk, rres, cnt) ==
    processBlock(blk, lastProcessedSlot, db, initSyncCache, rres, cnt)

\* C21: the rate counter does not decide admission.  In every state of the
\* run, for every candidate block and every answer of the receiver,
\* processBlock returns the same error, leaves the same lastProcessedSlot
\* and asks the receiver or not alike, whatever the counter's value; the
\* steps of the run agree with that for the block they hand over.  The
\* counter changes only in processBlock, by one, exactly when the slot
\* check was passed, and logSyncStatus changes nothing else: a block
\* turned away after it was logged leaves the watermark, the head, the
\* stores and the accepted blocks as they were.
C21_CounterNeverDecides ==
    /\ [] (\A blk \in CandidateBlocks, rres \in ReceiverResults,
              cnt \in CounterValues :
             LET a == OutcomeWith(blk, rres, counter)
                 b == OutcomeWith(blk, rres, cnt)
             IN  /\ a.err = b.err
                 /\ a.lps = b.lps
                 /\ a.called = b.called
                 /\ a.logged = b.logged
                 /\ b.counter = cnt + b.logged)
    /\ [][ /\ Handing =>
                \A cnt \in CounterValues :
                  LET b == OutcomeWith(Handed,
                                       IF lastEvent'.called = 1
                                       THEN lastEvent'.answer ELSE ErrNil,
                                       cnt)
                  IN  /\ lastEvent'.err = b.err
                      /\ lastProcessedSlot' = b.lps
           /\ counter' # counter =>
                /\ Handing
                /\ counter' = counter + 1
                /\ ~SlotAlreadyProcessed(Handed, lastProcessedSlot)
           /\ (Handing /\ ~SlotAlreadyProcessed(Handed, lastProcessedSlot)) =>
                counter' = counter + 1
           /\ (Handing /\ counter' # counter /\ lastEvent'.called = 0) =>
                UNCHANGED <<lastProcessedSlot, headSlot, db, initSyncCache,
                            accepted>>
         ]_vars

\* C21 witness: with the counter at 2 or more, a block was logged and
\* turned away for its missing parent after other blocks were accepted.
C21_Witness ==
    /\ counter >= 2
    /\ counter > Len(accepted)
    /\ accepted # <<>>
    /\ lastEvent.err = ErrNoParent
    /\ lastEvent.called = 0
    /\ lastProcessedSlot = accepted[Len(accepted)]

---------------------------------------------------------------------------
(* Termination of phase 2. *)

\* The batch loop of phase 2, from the selected peer on.
InBatchLoop == pc \in {"loop", "batch"}

\* A step of the sequential code of the batch loop: the loop condition, a
\* request with its answer or its failure, a block of the answer, the end
\* of the answer.
LoopStep ==
    \/ Phase2Reached
    \/ Phase2Request
    \/ Phase2RequestFails
    \/ Phase2Block
    \/ Phase2BatchEnd

\* The highest budget blocksPerSecond of the fetcher in the runs of the
\* batch loop alone.
LoopMaxBudget == 2

\* The batch loop alone: the run stands at the loop condition (line 101)
\* with the peer just selected and the loop's target just read from the
\* clock, after a phase 1 that handed over no block.
InitLoop ==
    /\ pc = "loop"
    /\ result = "running"
    /\ counter = 0
    /\ best \in Peers
    /\ peers = [p \in Peers |-> IF p = best THEN 0 ELSE NotConnected]
    /\ headSlot \in 0 .. (MaxSlot - 1)
    /\ lastProcessedSlot = InitialWatermark(headSlot)
    /\ db = { CanonRoot(s) : s \in 0 .. headSlot }
    /\ initSyncCache = {}
    /\ now \in { n \in headSlot .. MaxSlot : ~HeadIsCurrent(headSlot, n) }
    /\ qState = "stopped"
    /\ highestExpectedSlot = QueueTarget([p \in Peers |-> NotConnected])
    /\ qLow = headSlot + 1
    /\ qSub = [s \in SubStarts(qLow, highestExpectedSlot) |->
                 [NewSub EXCEPT !.st = "failed"]]
    /\ fetchedBlocks = <<>>
    /\ chanClosed = TRUE
    /\ emitted = <<>>
    /\ blocksPerSecond \in 1 .. LoopMaxBudget
    /\ target = now
    /\ batch = <<>>
    /\ batchLen = 0
    /\ selections = 1
    /\ waits = 0
    /\ requests = 0
    /\ lastReq = NoReq
    /\ reqErr = NotCalled
    /\ guardEq = FALSE
    /\ lastEvent = NoEvent
    /\ handed = 0
    /\ accepted = <<>>
    /\ CodecAtRest
    /\ AggregateAtRest
    /\ ClientAtRest

NextLoop ==
    \/ LoopStep
    \/ Tick

\* The batch loop where the code keeps running and every request returns,
\* with blocks or with an error.
SpecLoop == InitLoop /\ [][NextLoop]_vars /\ WF_vars(LoopStep)

\* How many blocks of the present answer went through processBlock.
ProcessedOfBatch == batchLen - Len(batch)

\* C22: in the batch loop a block that fails ends the run at once, so the
\* blocks of an answer that were processed were all accepted, each with a
\* slot from the requested start slot on and above the watermark it met;
\* every block step that does not end the run strictly increases
\* lastProcessedSlot; the loop is entered again only after an answer of at
\* least one block, all accepted, and nothing in the loop lowers the
\* watermark.  Since the slots are bounded, the batch loop ends whenever
\* its code keeps running and every request returns.
C22_Phase2Terminates ==
    /\ [] (pc = "batch" =>
             /\ ProcessedOfBatch \in 0 .. Len(accepted)
             /\ \A i \in 1 .. ProcessedOfBatch :
                  accepted[Len(accepted) - ProcessedOfBatch + i] >= lastReq.StartSlot
             /\ ProcessedOfBatch >= 1 =>
                  lastProcessedSlot = accepted[Len(accepted)])
    /\ [][ InBatchLoop =>
             /\ lastProcessedSlot' >= lastProcessedSlot
             /\ (Handing /\ pc' # "done") => lastProcessedSlot' > lastProcessedSlot
             /\ (Handing /\ pc' = "done") =>
                  lastEvent'.err # ErrNil /\ lastProcessedSlot' = lastProcessedSlot
             /\ (pc = "batch" /\ pc' = "loop") =>
                  /\ batchLen >= 1
                  /\ ProcessedOfBatch = batchLen
                  /\ lastProcessedSlot >= lastReq.StartSlot
             /\ (pc = "batch" /\ ~Handing /\ pc' = "done") => batchLen = 0
             /\ (Requesting /\ pc' = "done") => reqErr' # ErrNil
         ]_vars
    /\ (InBatchLoop ~> pc = "done")

\* C22 witness: a request was answered with blocks that were all accepted
\* while the head stayed where it was; a later request brought a block at
\* or below the watermark and the run ended.
C22_Witness ==
    /\ pc = "done"
    /\ requests >= 2
    /\ reqErr = ErrNil
    /\ lastEvent.err = ErrSlotProcessed
    /\ Len(accepted) >= 1
    /\ headSlot < lastProcessedSlot
    /\ headSlot < target

---------------------------------------------------------------------------
(* Failure of the write path. *)

\* The encoder was called and failed.
EncoderFailed ==
    /\ Written
    /\ writeOps # <<>>
    /\ writeOps[Len(writeOps)] = "EncodeWithMaxLength"
    /\ writeErr # NoError

\* C23: a write is not undone when the encoder fails.  When the encoder
\* was called and returned an error, the write path returns that error
\* and the stream holds the success status byte 0 as its first byte and
\* less than the message's frame after it: nothing at all when the
\* message is above maxChunkSize, a beginning of the frame when the
\* transport failed.  A read of these bytes sees the success status and
\* fails in the decoder, not with an error of the peer.
C23_WriteNotAtomic ==
    EncoderFailed =>
      /\ stream # <<>>
      /\ stream[1] = responseCodeSuccess
      /\ Len(stream) < Len(Encoded(msgIn))
      /\ StartsWith(Encoded(msgIn), stream)
      /\ writeErr \in {ErrTooLarge, ErrIO}
      /\ writeErr = ErrTooLarge <=> Len(msgIn) > maxChunkSize
      /\ Len(msgIn) > maxChunkSize => stream = <<responseCodeSuccess>>
      /\ ReadDone =>
           /\ Len(readOps) = 3
           /\ readErr \in {ErrIO, ErrMalformed}
           /\ readTo = <<>>

\* C23 witness: WriteChunk was given a message above maxChunkSize; it
\* returned the encoder's error, the stream holds the status byte alone,
\* and a read of it failed in the decoder.
C23_Witness ==
    /\ origin = "WriteChunk"
    /\ EncoderFailed
    /\ Len(msgIn) > maxChunkSize
    /\ writeErr = ErrTooLarge
    /\ stream = <<responseCodeSuccess>>
    /\ ReadDone
    /\ readErr = ErrIO

---------------------------------------------------------------------------
(* The aggregation strategy: attestations.Aggregate. *)

\* How many calls of Aggregate a run has.
MaxCalls == 3

NaiveAggregation == "naive"
MaxCoverAggregation == "max_cover"
\* The values the configured strategy may have: unset, the two known
\* strategies, and one that is unknown.
Strategies == {"", NaiveAggregation, MaxCoverAggregation, "unknown"}

\* The aggregation functions.
NaiveAttestationAggregation == "NaiveAttestationAggregation"
MaxCoverAttestationAggregation == "MaxCoverAttestationAggregation"
ErrInvalidStrategy == "invalid aggregation strategy"

\* A slip: the strategy is resolved on every call.
Aggregate_ResolvesEachCall(selected, strategy) ==
    IF strategy \in {"", NaiveAggregation}
    THEN [selected |-> NaiveAttestationAggregation,
          called |-> NaiveAttestationAggregation, err |-> ErrNil]
    ELSE IF strategy = MaxCoverAggregation
    THEN [selected |-> MaxCoverAttestationAggregation,
          called |-> MaxCoverAttestationAggregation, err |-> ErrNil]
    ELSE [selected |-> selected, called |-> NilFn, err |-> ErrInvalidStrategy]

\* Aggregate (lines 40-54) as a function of the package variable and the
\* configured strategy: the package variable afterwards, the aggregation
\* function that was called on atts, and the error of Aggregate's own.
Aggregate(selected, strategy) ==
    IF selected = NilFn
    THEN IF strategy \in {"", NaiveAggregation}
         THEN [selected |-> NaiveAttestationAggregation,
               called |-> NaiveAttestationAggregation, err |-> ErrNil]
         ELSE IF strategy = MaxCoverAggregation
         THEN [selected |-> MaxCoverAttestationAggregation,
               called |-> MaxCoverAttestationAggregation, err |-> ErrNil]
         ELSE [selected |-> selected, called |-> NilFn,
               err |-> ErrInvalidStrategy]
    ELSE [selected |-> selected, called |-> selected, err |-> ErrNil]

notAggVars == <<orchVars, gateVars, now, peers, queueVars, codecVars,
               clientVars>>

\* One call of Aggregate(atts).
AggregateCall ==
    /\ Len(aggregateLog) < MaxCalls
    /\ LET a == Aggregate(selectedAggregateFn, strategyConfig)
       IN  /\ selectedAggregateFn' = a.selected
           /\ aggregateLog' =
                Append(aggregateLog,
                       [strategy |-> strategyConfig, called |-> a.called,
                        err |-> a.err])
    /\ UNCHANGED strategyConfig
    /\ UNCHANGED notAggVars

\* The configuration is set anew (featureconfig.Init).
ConfigChange ==
    /\ \E st \in Strategies \ {strategyConfig} : strategyConfig' = st
    /\ UNCHANGED <<selectedAggregateFn, aggregateLog>>
    /\ UNCHANGED notAggVars

\* The attestations package alone: nothing has run yet, no strategy is
\* selected, and the configuration changes as it likes.
InitAggregate == InitCodec

NextAggregate ==
    \/ AggregateCall
    \/ ConfigChange

SpecAggregate == InitAggregate /\ [][NextAggregate]_vars

\* This step is a call of Aggregate; Returned is what it did.
Aggregating == Len(aggregateLog') = Len(aggregateLog) + 1
Returned == aggregateLog'[Len(aggregateLog')]

\* C24: Aggregate resolves the strategy only while none is selected.  A
\* call that finds none selected selects the naive function when the
\* configured strategy is empty or "naive" and the max-cover function when
\* it is "max_cover", and calls it; with any other strategy it returns
\* ErrInvalidStrategy, calls no function and leaves the selection unset, so
\* that the next call resolves again.  A call that finds a function
\* selected calls that function and keeps it, whatever the configuration
\* says; a change of the configuration alone does not touch the selection.
\* Hence all calls from the first one that resolved call the same function.
C24_StrategyResolvedOnce ==
    /\ [][ /\ (Aggregating /\ selectedAggregateFn # NilFn) =>
                /\ selectedAggregateFn' = selectedAggregateFn
                /\ Returned.called = selectedAggregateFn
                /\ Returned.err = ErrNil
           /\ (Aggregating /\ selectedAggregateFn = NilFn) =>
                /\ strategyConfig \in {"", NaiveAggregation} =>
                     /\ selectedAggregateFn' = NaiveAttestationAggregation
                     /\ Returned.called = NaiveAttestationAggregation
                     /\ Returned.err = ErrNil
                /\ strategyConfig = MaxCoverAggregation =>
                     /\ selectedAggregateFn' = MaxCoverAttestationAggregation
                     /\ Returned.called = MaxCoverAttestationAggregation
                     /\ Returned.err = ErrNil
                /\ strategyConfig \notin {"", NaiveAggregation, MaxCoverAggregation} =>
                     /\ selectedAggregateFn' = NilFn
                     /\ Returned.called = NilFn
                     /\ Returned.err = ErrInvalidStrategy
           /\ ~Aggregating => selectedAggregateFn' = selectedAggregateFn
         ]_vars
    /\ [] (\A i \in 1 .. Len(aggregateLog) : \A j \in i .. Len(aggregateLog) :
             aggregateLog[i].err = ErrNil =>
               /\ aggregateLog[j].err = ErrNil
               /\ aggregateLog[j].called = aggregateLog[i].called
               /\ selectedAggregateFn = aggregateLog[i].called)
    /\ [] ((\A i \in 1 .. Len(aggregateLog) : aggregateLog[i].err # ErrNil)
             <=> selectedAggregateFn = NilFn)

\* C24 witness: the first call met an unknown strategy and failed, the
\* second resolved the naive function, and the third, made while the
\* configuration said "max_cover", called the naive function again.
C24_Witness ==
    /\ Len(aggregateLog) = 3
    /\ aggregateLog[1].err = ErrInvalidStrategy
    /\ aggregateLog[2].err = ErrNil
    /\ aggregateLog[2].called = NaiveAttestationAggregation
    /\ aggregateLog[3].strategy = MaxCoverAggregation
    /\ aggregateLog[3].called = NaiveAttestationAggregation
    /\ selectedAggregateFn = NaiveAttestationAggregation

---------------------------------------------------------------------------
(* The validator client: ValidatorClient.Start and ValidatorClient.Close. *)

\* After the first interrupt the handler takes this many more before it
\* panics (line 251).
interruptsToPanic == 10

notClientVars == <<orchVars, gateVars, now, peers, queueVars, codecVars,
                  aggVars>>

\* A goroutine runs only while the process has not panicked.
Alive == ~vcProc.panicked

\* Start() is called.
StartCall ==
    /\ Alive
    /\ vcProc.Start = "not called"
    /\ vcProc' = [vcProc EXCEPT !.Start = "Lock"]
    /\ UNCHANGED <<vc, vcLog>>
    /\ UNCHANGED notClientVars

\* Line 232: s.lock.Lock().
StartLock ==
    /\ Alive
    /\ vcProc.Start = "Lock"
    /\ vc.lock = "free"
    /\ vc' = [vc EXCEPT !.lock = "Start"]
    /\ vcProc' = [vcProc EXCEPT !.Start = "StartAll"]
    /\ UNCHANGED vcLog
    /\ UNCHANGED notClientVars

\* Line 238: s.services.StartAll() begins.
StartAllBegins ==
    /\ Alive
    /\ vcProc.Start = "StartAll"
    /\ vc' = [vc EXCEPT !.services = "starting"]
    /\ vcProc' = [vcProc EXCEPT !.Start = "in StartAll"]
    /\ vcLog' = Append(vcLog, "StartAll begins")
    /\ UNCHANGED notClientVars

\* Line 238: s.services.StartAll() returns.
StartAllEnds ==
    /\ Alive
    /\ vcProc.Start = "in StartAll"
    /\ vc' = [vc EXCEPT !.services = "started"]
    /\ vcProc' = [vcProc EXCEPT !.Start = "Unlock"]
    /\ vcLog' = Append(vcLog, "StartAll ends")
    /\ UNCHANGED notClientVars

\* A slip: Start does not wait for the stop channel.
AfterStartUnlock_Returns == "returned"

\* Where Start goes after it released the lock (lines 243-261): it spawns
\* the signal handler and waits for the stop channel.
AfterStartUnlock == "<-stop"

\* Lines 240-243: stop := s.stop, s.lock.Unlock(), and the signal handler
\* is spawned.
StartUnlock ==
    /\ Alive
    /\ vcProc.Start = "Unlock"
    /\ vc' = [vc EXCEPT !.lock = "free"]
    /\ vcProc' = [vcProc EXCEPT !.Start = AfterStartUnlock,
                                !.signal = "listening"]
    /\ vcLog' = IF AfterStartUnlock = "returned"
                THEN Append(vcLog, "Start returns") ELSE vcLog
    /\ UNCHANGED notClientVars

\* Line 261: <-stop returns once the channel is closed, and Start returns.
StartReturns ==
    /\ Alive
    /\ vcProc.Start = "<-stop"
    /\ vc.stop = "closed"
    /\ vcProc' = [vcProc EXCEPT !.Start = "returned"]
    /\ vcLog' = Append(vcLog, "Start returns")
    /\ UNCHANGED vc
    /\ UNCHANGED notClientVars

\* Lines 247-250: the first interrupt arrives; the handler spawns Close.
Interrupt ==
    /\ Alive
    /\ vcProc.signal = "listening"
    /\ vcProc' = [vcProc EXCEPT !.signal = "counting",
                                !.Close["handler"] = "Lock"]
    /\ UNCHANGED <<vc, vcLog>>
    /\ UNCHANGED notClientVars

\* Lines 251-257: a further interrupt; after interruptsToPanic of them the
\* handler panics.
InterruptAgain ==
    /\ Alive
    /\ vcProc.signal = "counting"
    /\ vcProc' = [vcProc EXCEPT
                    !.interrupts = vcProc.interrupts + 1,
                    !.panicked = (vcProc.interrupts + 1 = interruptsToPanic)]
    /\ UNCHANGED <<vc, vcLog>>
    /\ UNCHANGED notClientVars

\* Close() is called from elsewhere.
CloseCall ==
    /\ Alive
    /\ vcProc.Close["caller"] = "not called"
    /\ vcProc' = [vcProc EXCEPT !.Close["caller"] = "Lock"]
    /\ UNCHANGED <<vc, vcLog>>
    /\ UNCHANGED notClientVars

\* Line 266: s.lock.Lock().
CloseLock(c) ==
    /\ Alive
    /\ vcProc.Close[c] = "Lock"
    /\ vc.lock = "free"
    /\ vc' = [vc EXCEPT !.lock = c]
    /\ vcProc' = [vcProc EXCEPT !.Close[c] = "StopAll"]
    /\ UNCHANGED vcLog
    /\ UNCHANGED notClientVars

\* Line 269: s.services.StopAll() begins.
StopAllBegins(c) ==
    /\ Alive
    /\ vcProc.Close[c] = "StopAll"
    /\ vc' = [vc EXCEPT !.services = "stopping"]
    /\ vcProc' = [vcProc EXCEPT !.Close[c] = "in StopAll"]
    /\ vcLog' = Append(vcLog, "StopAll begins")
    /\ UNCHANGED notClientVars

\* Line 269: s.services.StopAll() returns.
StopAllEnds(c) ==
    /\ Alive
    /\ vcProc.Close[c] = "in StopAll"
    /\ vc' = [vc EXCEPT !.services = "stopped"]
    /\ vcProc' = [vcProc EXCEPT !.Close[c] = "close"]
    /\ vcLog' = Append(vcLog, "StopAll ends")
    /\ UNCHANGED notClientVars

\* Line 272: close(s.stop); closing a closed channel panics.
CloseStop(c) ==
    /\ Alive
    /\ vcProc.Close[c] = "close"
    /\ IF vc.stop = "closed"
       THEN /\ vcProc' = [vcProc EXCEPT !.panicked = TRUE]
            /\ UNCHANGED <<vc, vcLog>>
       ELSE /\ vc' = [vc EXCEPT !.stop = "closed"]
            /\ vcProc' = [vcProc EXCEPT !.Close[c] = "Unlock"]
            /\ vcLog' = Append(vcLog, "stop closed")
    /\ UNCHANGED notClientVars

\* Line 267: the deferred s.lock.Unlock(), and Close returns.
CloseUnlock(c) ==
    /\ Alive
    /\ vcProc.Close[c] = "Unlock"
    /\ vc' = [vc EXCEPT !.lock = "free"]
    /\ vcProc' = [vcProc EXCEPT !.Close[c] = "returned"]
    /\ UNCHANGED vcLog
    /\ UNCHANGED notClientVars

\* The validator client alone, just constructed.
InitClient == InitCodec

NextClient ==
    \/ StartCall
    \/ StartLock
    \/ StartAllBegins
    \/ StartAllEnds
    \/ StartUnlock
    \/ StartReturns
    \/ Interrupt
    \/ InterruptAgain
    \/ CloseCall
    \/ \E c \in Closers : CloseLock(c)
    \/ \E c \in Closers : StopAllBegins(c)
    \/ \E c \in Closers : StopAllEnds(c)
    \/ \E c \in Closers : CloseStop(c)
    \/ \E c \in Closers : CloseUnlock(c)

SpecClient == InitClient /\ [][NextClient]_vars

\* Some goroutine is inside StopAll.
InStopAll == \E c \in Closers : vcProc.Close[c] = "in StopAll"

\* The events e1, e2, e3 appear in vcLog in this order.
LoggedInOrder(e1, e2, e3) ==
    \E i, j, k \in 1 .. Len(vcLog) :
        /\ i < j /\ j < k
        /\ vcLog[i] = e1 /\ vcLog[j] = e2 /\ vcLog[k] = e3

\* Close was not run before Start started the services.
StartedFirst == vcLog # <<>> /\ vcLog[1] = "StartAll begins"

\* C25: StartAll runs with the lock held by Start and StopAll with the lock
\* held by the Close that runs it, so the two never run at the same time;
\* Start returns only when the stop channel is closed, and then a StopAll
\* has ended before the channel was closed and the channel was closed
\* before Start returned; when the services were started before any Close
\* ran, they are not running once Start has returned.
C25_StartReturnsAfterClose ==
    /\ ~(vcProc.Start = "in StartAll" /\ InStopAll)
    /\ vcProc.Start \in {"StartAll", "in StartAll", "Unlock"}
           => vc.lock = "Start"
    /\ \A c \in Closers :
           vcProc.Close[c] \in {"StopAll", "in StopAll", "close", "Unlock"}
               => vc.lock = c
    /\ vcProc.Start = "<-stop" /\ vc.stop = "open"
           => ~ENABLED StartReturns
    /\ vcProc.Start = "returned"
           => /\ vc.stop = "closed"
              /\ LoggedInOrder("StopAll ends", "stop closed", "Start returns")
              /\ StartedFirst => vc.services \in {"stopping", "stopped"}

\* Start has returned after the interrupt handler's Close stopped the
\* services and closed the stop channel.
C25_Witness ==
    /\ vcProc.Start = "returned"
    /\ vcProc.Close["handler"] \in {"Unlock", "returned"}
    /\ vcLog = <<"StartAll begins", "StartAll ends", "StopAll begins",
                 "StopAll ends", "stop closed", "Start returns">>

====
